---- MODULE Spec2Model ----
(***************************************************************************)
(* Model of the MLOps platform-score backend.                              *)
(*                                                                         *)
(*   Part I   the OAuth state store (controller/state.py) and the Slack    *)
(*            login router (routers/login.py)            -- SpecState      *)
(*   Part II  the platform aggregate: create_platform and                  *)
(*            convert_sql_to_platform_model (controller/platform.py)       *)
(*                                                       -- SpecPlatform   *)
(*   Part III the conversions, validators and score means, as pure         *)
(*            functions                                  -- SpecPure       *)
(*   Part IV  the platform evaluations (controller/scores.py)              *)
(*                                                       -- SpecScore      *)
(*   Part V   the platform row, its last_updated and the vector-index      *)
(*            mirror (controller/platform.py)            -- SpecMirror     *)
(*   Part VI  the database sessions of a controller call                   *)
(*            (get_session, _ensure_healthy_session)     -- SpecSession    *)
(*                                                                         *)
(* The relational store is modelled as the set of committed rows of each   *)
(* table; a session holds its flushed and pending rows until commit.       *)
(***************************************************************************)
EXTENDS Integers, Sequences, FiniteSets, TLC

(***************************************************************************)
(* Bounds of the model                                                     *)
(***************************************************************************)
NumProcs == 2
MaxIssue == 2
MaxTime == 301
MaxCalls == 3
MaxChildren == 2
MaxPricing == 2
MaxCreates == 2
MaxEvaluations == 3
MaxLimit == 3
MaxPlatforms == 2
MaxClock == 3
MaxSessions == 6

Procs == 1..NumProcs

Min(a, b) == IF a < b THEN a ELSE b

(***************************************************************************)
(*                      Part I : the state store                           *)
(***************************************************************************)

\* StateController.__init__: expiration_seconds: int = 300
expiration_seconds == 300

\* uuid4 strings (model.state.str_uuid), modelled as fresh numbers 1, 2, ...;
\* 0 stands for a string no issue() ever generated.
StateValues == 1..MaxIssue

\* Python's None where a state row is expected: the row with id 0.
None == [id |-> 0, state |-> 0, created_at |-> 0]

VARIABLES
    store,      \* committed rows of table state.state
    now,        \* datetime.now(), in seconds
    uuids,      \* how many uuid4 values str_uuid has produced
    ids,        \* last value of the state.id autoincrement
    pc,         \* pc[p]: where request handler p stands
    loc,        \* loc[p]: the local variables of handler p
    okCount,    \* history: okCount[s] = consume(s) calls that returned a record
    calls,      \* how many requests have been started
    exchanges,  \* history: exchanges[s] = code exchanges attempted for state s
    expired     \* history: the state values a consume() found expired and deleted

stateVars == <<store, now, uuids, ids, pc, loc, calls, okCount, exchanges, expired>>

\* The variables of Part II (the platform tables and the controller calls).
VARIABLES
    db,         \* committed rows of the nine tables of schema platforms
    seqs,       \* seqs[t]: last value of the id sequence of table t
    requests,   \* requests[i]: the aggregate of the i-th create_platform call
    ppc,        \* ppc[p]: where controller call p stands
    ploc        \* ploc[p]: its session and local variables

platformVars == <<db, seqs, requests, ppc, ploc>>

\* The variables of Part III (one call of a pure function).
VARIABLES
    fn,         \* the function that was called last
    fn_in,      \* its argument
    fn_out      \* what it returned

pureVars == <<fn, fn_in, fn_out>>

\* The variables of Part IV (the tables of schema scores and one call of the
\* score controller).
VARIABLES
    sdb,        \* committed rows of the eleven tables of schema scores
    sseqs,      \* sseqs[t]: last value of the id sequence of table t
    sloc        \* the session and local variables of the call in progress

scoreVars == <<sdb, sseqs, sloc>>

\* The variables of Part V (the platform rows, the vector index and one call
\* of the platform controller).
VARIABLES
    platforms,    \* committed rows of table platform_information
    platform_seq, \* last value of its id sequence
    index,        \* the records of the vector index
    clock,        \* datetime.now()
    mutated,      \* history: mutated[id] = time of the last committed write
    mloc,         \* the local variables of the call in progress
    child_tables  \* committed rows of the tables that refer to a platform

mirrorVars ==
    <<platforms, platform_seq, index, clock, mutated, mloc, child_tables>>

\* The variables of Part VI (the database sessions of one controller call).
VARIABLES
    sessions,     \* sessions[i]: "open" or "closed", for every session made
    wloc          \* the local variables of the call in progress

sessionVars == <<sessions, wloc>>

\* What the actions of one part leave alone.
otherThanState ==
    <<platformVars, pureVars, scoreVars, mirrorVars, sessionVars>>
otherThanPlatform ==
    <<stateVars, pureVars, scoreVars, mirrorVars, sessionVars>>
otherThanPure ==
    <<stateVars, platformVars, scoreVars, mirrorVars, sessionVars>>
otherThanScore ==
    <<stateVars, platformVars, pureVars, mirrorVars, sessionVars>>
otherThanMirror ==
    <<stateVars, platformVars, pureVars, scoreVars, sessionVars>>
otherThanSession ==
    <<stateVars, platformVars, pureVars, scoreVars, mirrorVars>>

InitLoc ==
    [op |-> "none", arg |-> 0, db_state |-> None, time_elapsed |-> 0,
     ret |-> None, failed |-> FALSE, late |-> FALSE, late_expired |-> FALSE,
     status |-> 0, cookie |-> FALSE, exchanged |-> FALSE,
     token_response |-> "none",
     keep_latest |-> 0, latest_ids |-> {}, seen |-> {}, left |-> {}, quiet |-> FALSE,
     deleted_count |-> 0]

InitState ==
    /\ store = {}
    /\ now = 0
    /\ uuids = 0
    /\ ids = 0
    /\ pc = [p \in Procs |-> "idle"]
    /\ loc = [p \in Procs |-> InitLoc]
    /\ okCount = [s \in StateValues |-> 0]
    /\ exchanges = [s \in StateValues |-> 0]
    /\ expired = {}
    /\ calls = 0

\* Time passes: by exactly the TTL, or by one second more.
Tick ==
    /\ \E d \in {expiration_seconds, expiration_seconds + 1} :
          /\ now + d <= MaxTime
          /\ now' = now + d
    /\ UNCHANGED <<calls, store, uuids, ids, pc, loc, okCount, exchanges, expired>>
    /\ UNCHANGED otherThanState

---------------------------------------------------------------------------
\* StateController.issue, the storage part: session.add + session.commit
\* put the row in the table; session.refresh reads it back.  Outcomes:
\*   "ok"             every statement succeeds
\*   "commit_fails"   add/commit raises: nothing is stored
\*   "refresh_fails"  the commit succeeded, the refresh after it raises
issue_store(st, db_state, outcome) ==
    IF outcome = "commit_fails" THEN st ELSE st \cup {db_state}

\* StateController.issue, the value returned: the converted row, or None from
\* either except clause.
issue_return(db_state, outcome) ==
    IF outcome = "ok" THEN db_state ELSE None

\* GET /v1/slack/oauth: the whole handler (issue() holds one commit).
oauth(p) ==
    /\ pc[p] = "idle"
    /\ calls < MaxCalls
    /\ calls' = calls + 1
    /\ uuids < MaxIssue
    /\ \E outcome \in {"ok", "commit_fails", "refresh_fails"} :
          LET db_state == [id |-> ids + 1, state |-> uuids + 1, created_at |-> now]
              state    == issue_return(db_state, outcome)
          IN  /\ store' = issue_store(store, db_state, outcome)
              /\ ids' = IF outcome = "commit_fails" THEN ids ELSE ids + 1
              /\ loc' = [loc EXCEPT ![p] =
                            [InitLoc EXCEPT !.op = "oauth",
                                            !.arg = uuids + 1,
                                            !.ret = state,
                                            !.failed = (outcome # "ok"),
                                            !.status = IF state = None THEN 500 ELSE 200]]
    /\ uuids' = uuids + 1
    /\ pc' = [pc EXCEPT ![p] = "done"]
    /\ UNCHANGED <<now, okCount, exchanges, expired>>
    /\ UNCHANGED otherThanState

---------------------------------------------------------------------------
\* GET /v1/slack/oauth_redirect?code=..&state=s : the handler starts and calls
\* state_store.consume(state).  FastAPI requires code, so code is never None.
oauth_callback(p) ==
    /\ pc[p] = "idle"
    /\ calls < MaxCalls
    /\ calls' = calls + 1
    /\ \E s \in 0..uuids :
          loc' = [loc EXCEPT ![p] =
                     [InitLoc EXCEPT !.op = "callback", !.arg = s,
                                     !.late = (s \in StateValues /\ okCount[s] > 0),
                                     !.late_expired = (s \in expired)]]
    /\ pc' = [pc EXCEPT ![p] = "query"]
    /\ UNCHANGED <<store, now, uuids, ids, okCount, exchanges, expired>>
    /\ UNCHANGED otherThanState

\* session.query(StateModel).filter(StateModel.state == state).first()
query_first(st, s) ==
    IF \E r \in st : r.state = s
    THEN CHOOSE r \in st : r.state = s
    ELSE None

\* consume, lines 84-90: the lookup and the age of the row found.  (A
\* SQLAlchemyError here has the outcome of one at the delete: consume returns
\* None and the store is as before; it is modelled there.)
consume_query(p) ==
    /\ pc[p] = "query"
    /\ LET db_state == query_first(store, loc[p].arg)
       IN  IF db_state = None
           THEN /\ loc' = [loc EXCEPT ![p].ret = None]
                /\ pc' = [pc EXCEPT ![p] = "consumed"]
           ELSE /\ loc' = [loc EXCEPT ![p].db_state = db_state,
                                      ![p].time_elapsed = now - db_state.created_at]
                /\ pc' = [pc EXCEPT ![p] = "delete"]
    /\ UNCHANGED <<calls, store, now, uuids, ids, okCount, exchanges, expired>>
    /\ UNCHANGED otherThanState

\* Mutant of consume_delete_row: the delete is never committed.
consume_keep_row(st, db_state) == st

\* session.delete(db_state); session.commit(): DELETE ... WHERE id = :id.
\* A row already deleted by another session matches 0 rows, which the ORM
\* only warns about: the commit succeeds.
consume_delete_row(st, db_state) ==
    {r \in st : r.id # db_state.id}

\* Mutant of consume_result: a token is taken as expired at the TTL itself.
consume_result_ge(db_state, time_elapsed) ==
    IF time_elapsed >= expiration_seconds THEN None ELSE db_state

\* consume, lines 95-105: what the call returns once the delete is committed.
consume_result(db_state, time_elapsed) ==
    IF time_elapsed > expiration_seconds THEN None ELSE db_state

\* consume, lines 92-105 (and the except clauses, lines 108-113).
consume_delete(p) ==
    /\ pc[p] = "delete"
    /\ \E ok \in BOOLEAN :
          LET ret == IF ok THEN consume_result(loc[p].db_state, loc[p].time_elapsed)
                     ELSE None
          IN  /\ store' = IF ok THEN consume_delete_row(store, loc[p].db_state) ELSE store
              /\ loc' = [loc EXCEPT ![p].ret = ret, ![p].failed = ~ok]
              /\ okCount' = IF ret # None
                            THEN [okCount EXCEPT ![ret.state] = @ + 1]
                            ELSE okCount
              /\ expired' = IF ok /\ ret = None
                            THEN expired \cup {loc[p].db_state.state}
                            ELSE expired
    /\ pc' = [pc EXCEPT ![p] = "consumed"]
    /\ UNCHANGED <<calls, now, uuids, ids, exchanges>>
    /\ UNCHANGED otherThanState

\* oauth_callback, lines 56-91: consume() has returned.  A record leads to the
\* code exchange client.openid_connect_token, whose response either carries an
\* access_token, or none, or the call raises; the HTTPException(500) raised
\* for a missing token is caught by `except Exception` and becomes a 400.
oauth_exchange(p) ==
    /\ pc[p] = "consumed"
    /\ IF loc[p].ret # None
       THEN /\ \E r \in {"token", "no_token", "raises"} :
                  loc' = [loc EXCEPT ![p].exchanged = TRUE,
                                     ![p].token_response = r,
                                     ![p].status = IF r = "token" THEN 307 ELSE 400,
                                     ![p].cookie = (r = "token")]
            /\ exchanges' = [exchanges EXCEPT ![loc[p].arg] = @ + 1]
       ELSE /\ loc' = [loc EXCEPT ![p].status = 400]
            /\ UNCHANGED exchanges
    /\ pc' = [pc EXCEPT ![p] = "done"]
    /\ UNCHANGED <<calls, store, now, uuids, ids, okCount, expired>>
    /\ UNCHANGED otherThanState

---------------------------------------------------------------------------
\* Mutant of latest_states: the order is ascending, so the oldest are kept.
latest_states_asc(st, keep_latest) ==
    {S \in SUBSET st :
        /\ Cardinality(S) = Min(keep_latest, Cardinality(st))
        /\ \A r \in S : \A q \in st \ S : r.created_at <= q.created_at}

\* clear_old_states, lines 122-127: ORDER BY created_at DESC LIMIT keep_latest.
\* Among rows of equal created_at the store picks any.
latest_states(st, keep_latest) ==
    {S \in SUBSET st :
        /\ Cardinality(S) = Min(keep_latest, Cardinality(st))
        /\ \A r \in S : \A q \in st \ S : r.created_at >= q.created_at}

\* clear_old_states, lines 130-136: the rows the DELETE leaves.
clear_delete(st, latest_ids) ==
    IF latest_ids # {} THEN {r \in st : r.id \in latest_ids} ELSE {}

clear_old_states(p) ==
    /\ pc[p] = "idle"
    /\ calls < MaxCalls
    /\ calls' = calls + 1
    /\ \E keep_latest \in 0..MaxIssue :
       \E latest \in latest_states(store, keep_latest) :
          loc' = [loc EXCEPT ![p] =
                     [InitLoc EXCEPT !.op = "clear",
                                     !.keep_latest = keep_latest,
                                     !.latest_ids = {r.id : r \in latest},
                                     !.seen = store]]
    /\ pc' = [pc EXCEPT ![p] = "clear_delete"]
    /\ UNCHANGED <<store, now, uuids, ids, okCount, exchanges, expired>>
    /\ UNCHANGED otherThanState

\* clear_old_states, lines 130-149: the delete and its commit, or an error
\* (at any statement of the body), after which 0 is returned.
clear_commit(p) ==
    /\ pc[p] = "clear_delete"
    /\ \E ok \in BOOLEAN :
          LET kept == IF ok THEN clear_delete(store, loc[p].latest_ids) ELSE store
          IN  /\ store' = kept
              /\ loc' = [loc EXCEPT ![p].deleted_count = Cardinality(store) - Cardinality(kept),
                                    ![p].failed = ~ok,
                                    ![p].left = kept,
                                    ![p].quiet = (store = loc[p].seen)]
    /\ pc' = [pc EXCEPT ![p] = "done"]
    /\ UNCHANGED <<calls, now, uuids, ids, okCount, exchanges, expired>>
    /\ UNCHANGED otherThanState

\* The handler returns; its locals are gone.
Return(p) ==
    /\ pc[p] = "done"
    /\ pc' = [pc EXCEPT ![p] = "idle"]
    /\ loc' = [loc EXCEPT ![p] = InitLoc]
    /\ UNCHANGED <<calls, store, now, uuids, ids, okCount, exchanges, expired>>
    /\ UNCHANGED otherThanState

NextState ==
    \/ Tick
    \/ \E p \in Procs : oauth(p)
    \/ \E p \in Procs : oauth_callback(p)
    \/ \E p \in Procs : consume_query(p)
    \/ \E p \in Procs : consume_delete(p)
    \/ \E p \in Procs : oauth_exchange(p)
    \/ \E p \in Procs : clear_old_states(p)
    \/ \E p \in Procs : clear_commit(p)
    \/ \E p \in Procs : Return(p)

(***************************************************************************)
(*                  Part II : the platform aggregate                       *)
(***************************************************************************)


Tables ==
    {"network_capabilities", "security_features", "platform_information",
     "geographic_regions", "compute_instance", "pricing_model",
     "compliance_certification", "proprietary_software",
     "proprietary_hardware", "support_tier"}

\* The 1:many tables whose rows carry platform_id.
ChildTables ==
    {"geographic_regions", "compute_instance", "compliance_certification",
     "proprietary_software", "proprietary_hardware", "support_tier"}

\* A row.  val is the table's scalar column followed here (platform_name,
\* vpc_support, encryption_at_rest, country, storage_gb, pricing_type, ...);
\* platform_id is the column platform_id, and for pricing_model the column
\* compute_instance_id; req (history) is the create_platform call that
\* inserted the row.  An id of 0 is Python's None (no id yet).
Row(table, id, platform_id, networking_id, security_id, val, req) ==
    [table |-> table, id |-> id, platform_id |-> platform_id,
     networking_id |-> networking_id, security_id |-> security_id,
     val |-> val, req |-> req]

\* model.platform.PricingType
PricingTypes ==
    <<"on_demand", "reserved", "spot", "preemptible", "dedicated", "burstable">>

\* storage_gb: Optional[float]; a zero and a non-zero value that fits Numeric(2)
StorageValues == {"0.0", "64.0"}

\* A domain aggregate (model.platform.PlatformInformation) with n regions,
\* compute instances, software, hardware and support tiers, k pricing models
\* on each instance and c compliance certifications; no id is set.
Aggregate(n, k, storage_gb, c) ==
    [id |-> 0,
     platform_name |-> "acme",
     networking |-> [id |-> 0, vpc_support |-> "True"],
     security_features |-> [id |-> 0, encryption_at_rest |-> "True"],
     regions |-> [i \in 1..n |-> [id |-> 0, country_code |-> "US"]],
     compute_instances |->
        [i \in 1..n |->
            [id |-> 0, storage_gb |-> storage_gb,
             pricing_models |->
                [j \in 1..k |-> [id |-> 0, pricing_type |-> PricingTypes[j]]]]],
     compliance_certifications |->
        [i \in 1..c |-> [id |-> 0, certification_name |-> "SOC2",
                         status |-> "in_progress"]],
     proprietary_software |-> [i \in 1..n |-> [id |-> 0, software_name |-> "sdk"]],
     proprietary_hardware |-> [i \in 1..n |-> [id |-> 0, hardware_name |-> "tpu"]],
     support_tiers |-> [i \in 1..n |-> [id |-> 0, tier_name |-> "basic"]]]

Aggregates ==
    {Aggregate(n, k, s, c) :
        n \in 0..MaxChildren, k \in 0..MaxPricing, s \in StorageValues, c \in 0..1}

\* No aggregate: None, or nothing returned because the call raised.
NoAggregate == Aggregate(0, 0, "None", 0)

InitPLoc ==
    [op |-> "none", req |-> 0, arg |-> 0, flushed |-> {}, pending |-> <<>>,
     networking_id |-> 0, security_id |-> 0, platform_id |-> 0,
     committed |-> FALSE, raised |-> FALSE, found |-> FALSE,
     result |-> NoAggregate]

InitPlatform ==
    /\ db = {}
    /\ seqs = [t \in Tables |-> 0]
    /\ requests = <<>>
    /\ ppc = [p \in Procs |-> "idle"]
    /\ ploc = [p \in Procs |-> InitPLoc]


---------------------------------------------------------------------------
\* The rows of a set in the order of their ids (a relationship is loaded
\* without ORDER BY; the claims below do not depend on the order).
RECURSIVE SortedById(_)
SortedById(S) ==
    IF S = {} THEN <<>>
    ELSE LET r == CHOOSE x \in S : \A y \in S : x.id <= y.id
         IN  <<r>> \o SortedById(S \ {r})

RECURSIVE Flatten(_)
Flatten(ss) == IF ss = <<>> THEN <<>> ELSE Head(ss) \o Flatten(Tail(ss))

\* create_platform, lines 276-280: NetworkCapabilities(**networking.model_dump())
network_row(A, id, req) ==
    Row("network_capabilities", id, 0, 0, 0, A.networking.vpc_support, req)

\* create_platform, lines 284-288: SecurityFeatures(**security_features.model_dump())
security_row(A, id, req) ==
    Row("security_features", id, 0, 0, 0, A.security_features.encryption_at_rest, req)

\* Mutant of platform_row: the two foreign keys are exchanged.
platform_row_swapped(A, id, networking_id, security_id, req) ==
    Row("platform_information", id, 0, security_id, networking_id, A.platform_name, req)

\* create_platform, lines 291-305: the root row and its two foreign keys.
platform_row(A, id, networking_id, security_id, req) ==
    Row("platform_information", id, 0, networking_id, security_id, A.platform_name, req)

\* create_platform, lines 331-337: pricing_dict['compute_instance_id'] = platform.id
pricing_rows(instance_data, platform_id, req) ==
    [j \in 1..Len(instance_data.pricing_models) |->
        Row("pricing_model", 0, platform_id, 0, 0,
            instance_data.pricing_models[j].pricing_type, req)]

\* create_platform, lines 310-369: the child rows added to the session after
\* the root flush, in the order of the code, each stamped with platform.id;
\* region_dict['country'] = region_dict.pop('country_code').
child_rows(A, platform_id, req) ==
    [i \in 1..Len(A.regions) |->
        Row("geographic_regions", 0, platform_id, 0, 0, A.regions[i].country_code, req)]
    \o Flatten([i \in 1..Len(A.compute_instances) |->
        <<Row("compute_instance", 0, platform_id, 0, 0,
              A.compute_instances[i].storage_gb, req)>>
        \o pricing_rows(A.compute_instances[i], platform_id, req)])
    \o [i \in 1..Len(A.proprietary_software) |->
        Row("proprietary_software", 0, platform_id, 0, 0,
            A.proprietary_software[i].software_name, req)]
    \o [i \in 1..Len(A.proprietary_hardware) |->
        Row("proprietary_hardware", 0, platform_id, 0, 0,
            A.proprietary_hardware[i].hardware_name, req)]
    \o [i \in 1..Len(A.support_tiers) |->
        Row("support_tier", 0, platform_id, 0, 0, A.support_tiers[i].tier_name, req)]

\* create_platform, lines 340-345: cert_data.model_dump() holds the key status,
\* for which sql_model ComplianceCertification has no column: the constructor
\* raises TypeError as soon as the aggregate has a certification.
certification_raises(A) == Len(A.compliance_certifications) > 0

\* The flush of the pending rows: each gets the next id of its table.
flush_rows(pending, sq) ==
    {[pending[i] EXCEPT !.id = sq[pending[i].table]
                          + Cardinality({j \in 1..i : pending[j].table = pending[i].table})] :
        i \in 1..Len(pending)}

flush_seqs(pending, sq) ==
    [t \in Tables |-> sq[t] + Cardinality({j \in 1..Len(pending) : pending[j].table = t})]

\* session.commit(): every row of the transaction becomes visible at once.
committed_rows(rows, flushed, children) == rows \cup flushed \cup children

\* Mutant of rolled_back_rows: the flushed rows survive the rollback.
rollback_keeps_flushed(rows, flushed) == rows \cup flushed

\* session.rollback(): nothing of the transaction reaches the tables.
rolled_back_rows(rows, flushed) == rows

---------------------------------------------------------------------------
\* convert_sql_to_platform_model, lines 141-149:
\* float(instance.storage_gb) if instance.storage_gb else None
float_or_none(v) == IF v = "None" \/ v = "0.0" THEN "None" ELSE v

\* Mutant of instance_pricing: only the rows that reference the instance.
instance_pricing_by_instance(rows, platform, instance) ==
    {r \in rows : r.table = "pricing_model" /\ r.platform_id = instance.id}

\* convert_sql_to_platform_model, lines 123-134: platform.pricing_models are
\* the pricing rows whose compute_instance_id is the platform's id; the test
\* pricing.compute_instance_id == platform.id keeps each of them, under
\* every instance.
instance_pricing(rows, platform, instance) ==
    {r \in {q \in rows : q.table = "pricing_model" /\ q.platform_id = platform.id} :
        r.platform_id = platform.id}

\* The rows of a 1:many relationship of the platform.
related(rows, table, platform) ==
    {r \in rows : r.table = table /\ r.platform_id = platform.id}

convert_sql_to_platform_model(rows, platform) ==
    LET net == {r \in rows : r.table = "network_capabilities"
                             /\ r.id = platform.networking_id}
        sec == {r \in rows : r.table = "security_features"
                             /\ r.id = platform.security_id}
        regions   == SortedById(related(rows, "geographic_regions", platform))
        instances == SortedById(related(rows, "compute_instance", platform))
        certs     == SortedById(related(rows, "compliance_certification", platform))
        software  == SortedById(related(rows, "proprietary_software", platform))
        hardware  == SortedById(related(rows, "proprietary_hardware", platform))
        tiers     == SortedById(related(rows, "support_tier", platform))
    IN  [id |-> 0,   \* platform_data has no key 'id'
         platform_name |-> platform.val,
         networking |->
            IF net # {}
            THEN LET n == CHOOSE r \in net : TRUE
                 IN  [id |-> n.id, vpc_support |-> n.val]
            ELSE [id |-> 0, vpc_support |-> "False"],
         security_features |->
            IF sec # {}
            THEN LET s == CHOOSE r \in sec : TRUE
                 IN  [id |-> s.id, encryption_at_rest |-> s.val]
            ELSE [id |-> 0, encryption_at_rest |-> "False"],
         regions |->
            [i \in 1..Len(regions) |->
                [id |-> regions[i].id, country_code |-> regions[i].val]],
         compute_instances |->
            [i \in 1..Len(instances) |->
                [id |-> instances[i].id,
                 storage_gb |-> float_or_none(instances[i].val),
                 pricing_models |->
                    LET pm == SortedById(instance_pricing(rows, platform, instances[i]))
                    IN  [j \in 1..Len(pm) |->
                            [id |-> pm[j].id, pricing_type |-> pm[j].val]]]],
         compliance_certifications |->
            [i \in 1..Len(certs) |->
                [id |-> certs[i].id, certification_name |-> certs[i].val,
                 status |-> "certified"]],
         proprietary_software |->
            [i \in 1..Len(software) |->
                [id |-> software[i].id, software_name |-> software[i].val]],
         proprietary_hardware |->
            [i \in 1..Len(hardware) |->
                [id |-> hardware[i].id, hardware_name |-> hardware[i].val]],
         support_tiers |->
            [i \in 1..Len(tiers) |->
                [id |-> tiers[i].id, tier_name |-> tiers[i].val]]]

---------------------------------------------------------------------------
\* create_platform is called with an aggregate; the session is opened.
create_platform(p) ==
    /\ ppc[p] = "idle"
    /\ Len(requests) < MaxCreates
    /\ \E A \in Aggregates : requests' = Append(requests, A)
    /\ ploc' = [ploc EXCEPT ![p] =
                   [InitPLoc EXCEPT !.op = "create", !.req = Len(requests) + 1]]
    /\ ppc' = [ppc EXCEPT ![p] = "networking"]
    /\ UNCHANGED <<db, seqs>>
    /\ UNCHANGED otherThanPlatform

\* The except clause, lines 385-390: session.rollback(), then raise.
Raise(p) ==
    /\ db' = rolled_back_rows(db, ploc[p].flushed)
    /\ ploc' = [ploc EXCEPT ![p].flushed = {}, ![p].pending = <<>>,
                            ![p].raised = TRUE]
    /\ ppc' = [ppc EXCEPT ![p] = "done"]

\* lines 276-280: session.add(network_capabilities); session.flush()
insert_networking(p) ==
    /\ ppc[p] = "networking"
    /\ \E ok \in BOOLEAN :
          IF ok
          THEN LET id == seqs["network_capabilities"] + 1
               IN  /\ seqs' = [seqs EXCEPT !["network_capabilities"] = id]
                   /\ ploc' = [ploc EXCEPT
                         ![p].networking_id = id,
                         ![p].flushed = @ \cup
                             {network_row(requests[ploc[p].req], id, ploc[p].req)}]
                   /\ ppc' = [ppc EXCEPT ![p] = "security"]
                   /\ UNCHANGED db
          ELSE Raise(p) /\ UNCHANGED seqs
    /\ UNCHANGED requests
    /\ UNCHANGED otherThanPlatform

\* lines 284-288: session.add(security_features); session.flush()
insert_security(p) ==
    /\ ppc[p] = "security"
    /\ \E ok \in BOOLEAN :
          IF ok
          THEN LET id == seqs["security_features"] + 1
               IN  /\ seqs' = [seqs EXCEPT !["security_features"] = id]
                   /\ ploc' = [ploc EXCEPT
                         ![p].security_id = id,
                         ![p].flushed = @ \cup
                             {security_row(requests[ploc[p].req], id, ploc[p].req)}]
                   /\ ppc' = [ppc EXCEPT ![p] = "platform"]
                   /\ UNCHANGED db
          ELSE Raise(p) /\ UNCHANGED seqs
    /\ UNCHANGED requests
    /\ UNCHANGED otherThanPlatform

\* lines 291-306: session.add(platform); session.flush()
insert_platform(p) ==
    /\ ppc[p] = "platform"
    /\ \E ok \in BOOLEAN :
          IF ok
          THEN LET id == seqs["platform_information"] + 1
               IN  /\ seqs' = [seqs EXCEPT !["platform_information"] = id]
                   /\ ploc' = [ploc EXCEPT
                         ![p].platform_id = id,
                         ![p].flushed = @ \cup
                             {platform_row(requests[ploc[p].req], id,
                                           ploc[p].networking_id,
                                           ploc[p].security_id, ploc[p].req)}]
                   /\ ppc' = [ppc EXCEPT ![p] = "children"]
                   /\ UNCHANGED db
          ELSE Raise(p) /\ UNCHANGED seqs
    /\ UNCHANGED requests
    /\ UNCHANGED otherThanPlatform

\* lines 310-369: the child rows are built and added to the session.
add_children(p) ==
    /\ ppc[p] = "children"
    /\ IF certification_raises(requests[ploc[p].req])
       THEN Raise(p)
       ELSE /\ ploc' = [ploc EXCEPT ![p].pending =
                           child_rows(requests[ploc[p].req], ploc[p].platform_id,
                                      ploc[p].req)]
            /\ ppc' = [ppc EXCEPT ![p] = "commit"]
            /\ UNCHANGED db
    /\ UNCHANGED <<seqs, requests>>
    /\ UNCHANGED otherThanPlatform

\* line 371: session.commit() flushes the pending rows and commits.
commit(p) ==
    /\ ppc[p] = "commit"
    /\ \E ok \in BOOLEAN :
          IF ok
          THEN /\ db' = committed_rows(db, ploc[p].flushed,
                                       flush_rows(ploc[p].pending, seqs))
               /\ seqs' = flush_seqs(ploc[p].pending, seqs)
               /\ ploc' = [ploc EXCEPT ![p].flushed = {}, ![p].pending = <<>>,
                                       ![p].committed = TRUE]
               /\ ppc' = [ppc EXCEPT ![p] = "refresh"]
          ELSE Raise(p) /\ UNCHANGED seqs
    /\ UNCHANGED requests
    /\ UNCHANGED otherThanPlatform

\* lines 372-384: session.refresh(platform), the conversion of the stored
\* rows and the return (a failing refresh raises after the commit).
create_return(p) ==
    /\ ppc[p] = "refresh"
    /\ \E ok \in BOOLEAN :
          IF ok
          THEN LET platform == CHOOSE r \in db :
                                  /\ r.table = "platform_information"
                                  /\ r.id = ploc[p].platform_id
               IN  ploc' = [ploc EXCEPT ![p].found = TRUE,
                               ![p].result = convert_sql_to_platform_model(db, platform)]
          ELSE ploc' = [ploc EXCEPT ![p].raised = TRUE]
    /\ ppc' = [ppc EXCEPT ![p] = "done"]
    /\ UNCHANGED <<db, seqs, requests>>
    /\ UNCHANGED otherThanPlatform

\* get_platform(platform_id), lines 392-400.
get_platform(p) ==
    /\ ppc[p] = "idle"
    /\ \E platform_id \in 1..seqs["platform_information"] :
          LET found == {r \in db : r.table = "platform_information" /\ r.id = platform_id}
          IN  ploc' = [ploc EXCEPT ![p] =
                  [InitPLoc EXCEPT
                      !.op = "get", !.arg = platform_id,
                      !.found = (found # {}),
                      !.result = IF found # {}
                                 THEN convert_sql_to_platform_model(
                                          db, CHOOSE r \in found : TRUE)
                                 ELSE NoAggregate]]
    /\ ppc' = [ppc EXCEPT ![p] = "done"]
    /\ UNCHANGED <<db, seqs, requests>>
    /\ UNCHANGED otherThanPlatform

\* The call returns (or has raised); its session is gone.
PlatformReturn(p) ==
    /\ ppc[p] = "done"
    /\ ppc' = [ppc EXCEPT ![p] = "idle"]
    /\ ploc' = [ploc EXCEPT ![p] = InitPLoc]
    /\ UNCHANGED <<db, seqs, requests>>
    /\ UNCHANGED otherThanPlatform

NextPlatform ==
    \/ \E p \in Procs : create_platform(p)
    \/ \E p \in Procs : insert_networking(p)
    \/ \E p \in Procs : insert_security(p)
    \/ \E p \in Procs : insert_platform(p)
    \/ \E p \in Procs : add_children(p)
    \/ \E p \in Procs : commit(p)
    \/ \E p \in Procs : create_return(p)
    \/ \E p \in Procs : get_platform(p)
    \/ \E p \in Procs : PlatformReturn(p)

(***************************************************************************)
(*        Part III : the conversions and validators (pure functions)       *)
(***************************************************************************)
\* A nullable object (a relationship attribute, an Optional field) is the
\* set of at most one record; a nullable array column is a record that says
\* whether it is NULL and holds its items.
Null == [null |-> TRUE, items |-> <<>>]

Array(items) == [null |-> FALSE, items |-> items]

\* sql_model NetworkCapabilities rows as create_platform stores them: the
\* booleans are set, the optional columns may be NULL.
NetworkCapabilitiesRows ==
    {[id |-> "1", bandwidth_gbps |-> b, network_type |-> "None",
      interconnect_technology |-> i, vpc_support |-> v, load_balancing |-> l,
      cdn_integration |-> "False", private_networking |-> "True"] :
        b \in {"None", "10.0"}, i \in {"None", "InfiniBand"},
        v \in {"True", "False"}, l \in {"True", "False"}}

\* sql_model SecurityFeatures rows as create_platform stores them.
SecurityFeaturesRows ==
    {[id |-> "1", encryption_at_rest |-> a, encryption_in_transit |-> b,
      key_management |-> "True", identity_management |-> "False",
      network_security |-> "True", vulnerability_scanning |-> "False",
      security_monitoring |-> "True", penetration_testing |-> "False"] :
        a \in {"True", "False"}, b \in {"True", "False"}}

ArrayColumns == {Null, Array(<<>>), Array(<<"llm">>)}

\* A platform_information row with its two 1:1 relationships loaded.
PlatformRows ==
    [network_capabilities : {{}} \cup {{n} : n \in NetworkCapabilitiesRows},
     security_features : {{}} \cup {{s} : s \in SecurityFeaturesRows},
     specializations : ArrayColumns,
     target_markets : {Null, Array(<<"enterprise">>)},
     notable_customers : {Null},
     partnerships : {Array(<<>>)},
     data_sources : {Null, Array(<<"docs">>)}]

\* Mutant of convert_networking: a missing row gives no object.
convert_networking_absent(network_capabilities) ==
    {[id |-> n.id, bandwidth_gbps |-> n.bandwidth_gbps,
      network_type |-> n.network_type,
      interconnect_technology |-> n.interconnect_technology,
      vpc_support |-> n.vpc_support, load_balancing |-> n.load_balancing,
      cdn_integration |-> n.cdn_integration,
      private_networking |-> n.private_networking] : n \in network_capabilities}

\* convert_sql_to_platform_model, lines 78-88: each field is
\* platform.network_capabilities.f if platform.network_capabilities else d.
convert_networking(network_capabilities) ==
    IF network_capabilities # {}
    THEN LET n == CHOOSE r \in network_capabilities : TRUE
         IN  {[id |-> n.id, bandwidth_gbps |-> n.bandwidth_gbps,
               network_type |-> n.network_type,
               interconnect_technology |-> n.interconnect_technology,
               vpc_support |-> n.vpc_support, load_balancing |-> n.load_balancing,
               cdn_integration |-> n.cdn_integration,
               private_networking |-> n.private_networking]}
    ELSE {[id |-> "None", bandwidth_gbps |-> "None", network_type |-> "None",
           interconnect_technology |-> "None",
           vpc_support |-> "False", load_balancing |-> "False",
           cdn_integration |-> "False", private_networking |-> "False"]}

\* convert_sql_to_platform_model, lines 91-102.
convert_security_features(security_features) ==
    IF security_features # {}
    THEN LET s == CHOOSE r \in security_features : TRUE
         IN  {[id |-> s.id, encryption_at_rest |-> s.encryption_at_rest,
               encryption_in_transit |-> s.encryption_in_transit,
               key_management |-> s.key_management,
               identity_management |-> s.identity_management,
               network_security |-> s.network_security,
               vulnerability_scanning |-> s.vulnerability_scanning,
               security_monitoring |-> s.security_monitoring,
               penetration_testing |-> s.penetration_testing]}
    ELSE {[id |-> "None", encryption_at_rest |-> "False",
           encryption_in_transit |-> "False", key_management |-> "False",
           identity_management |-> "False", network_security |-> "False",
           vulnerability_scanning |-> "False", security_monitoring |-> "False",
           penetration_testing |-> "False"]}

\* lines 69-74: platform.column or []
or_empty_list(column) ==
    IF column.null \/ column.items = <<>> THEN Array(<<>>) ELSE column

\* convert_sql_to_platform_model, lines 55-102: the root's array columns and
\* the two 1:1 objects of the aggregate.
convert_platform_data(platform) ==
    [specializations |-> or_empty_list(platform.specializations),
     target_markets |-> or_empty_list(platform.target_markets),
     notable_customers |-> or_empty_list(platform.notable_customers),
     partnerships |-> or_empty_list(platform.partnerships),
     data_sources |-> or_empty_list(platform.data_sources),
     networking |-> convert_networking(platform.network_capabilities),
     security_features |-> convert_security_features(platform.security_features)]

---------------------------------------------------------------------------
\* model.platform.GeographicRegion records (what model_dump() returns).
GeographicRegionModels ==
    [id : {"None"}, region_name : {"us-east", "eu-central"},
     region_code : {"r1"}, country_code : {"US", "DE"},
     availability_zones : {"None", "3"}, datacenter_tier : {"tier_3"},
     edge_location : {"True", "False"}]

\* The columns of sql_model.platforms.GeographicRegions.
GeographicRegionsColumns ==
    {"id", "platform_id", "region_name", "region_code", "country",
     "availability_zones", "datacenter_tier", "edge_location"}

\* GeographicRegions(**region_dict): the declarative constructor raises
\* TypeError on a key that is no attribute of the class (no object: {});
\* a column without a key is None.
GeographicRegions(region_dict) ==
    IF DOMAIN region_dict \subseteq GeographicRegionsColumns
    THEN {[c \in GeographicRegionsColumns |->
              IF c \in DOMAIN region_dict THEN region_dict[c] ELSE "None"]}
    ELSE {}

\* create_platform, lines 312-318: platform_id is added and the key
\* country_code is renamed to country.
region_dict_of_platform(region_data, platform_id) ==
    [k \in (DOMAIN region_data \ {"country_code"}) \cup {"platform_id", "country"} |->
        IF k = "platform_id" THEN platform_id
        ELSE IF k = "country" THEN region_data.country_code
        ELSE region_data[k]]

\* create_geographic_region, lines 503-517: the row is built from
\* region_data.model_dump() as it is, committed and returned; on an
\* exception the session is rolled back and the exception raised again.
\* platform_id is NOT NULL.
create_geographic_region(region_data) ==
    LET region == GeographicRegions(region_data)
    IN  IF region = {} \/ \E r \in region : r.platform_id = "None"
        THEN [raised |-> TRUE, stored |-> {}]
        ELSE [raised |-> FALSE, stored |-> region]

\* The region insert of create_platform, for a flushed platform.
create_platform_region(region_data) ==
    LET region == GeographicRegions(region_dict_of_platform(region_data, "1"))
    IN  IF region = {}
        THEN [raised |-> TRUE, stored |-> {}]
        ELSE [raised |-> FALSE, stored |-> region]

---------------------------------------------------------------------------
\* A Python str is the sequence of its characters.
UpperChars ==
    <<"A", "B", "C", "D", "E", "F", "G", "H", "I", "J", "K", "L", "M",
      "N", "O", "P", "Q", "R", "S", "T", "U", "V", "W", "X", "Y", "Z">>

LowerChars ==
    <<"a", "b", "c", "d", "e", "f", "g", "h", "i", "j", "k", "l", "m",
      "n", "o", "p", "q", "r", "s", "t", "u", "v", "w", "x", "y", "z">>

\* str.lower() and str.upper() on one character.
lower_char(c) ==
    IF \E i \in DOMAIN UpperChars : UpperChars[i] = c
    THEN LowerChars[CHOOSE i \in DOMAIN UpperChars : UpperChars[i] = c]
    ELSE c

upper_char(c) ==
    IF \E i \in DOMAIN LowerChars : LowerChars[i] = c
    THEN UpperChars[CHOOSE i \in DOMAIN LowerChars : LowerChars[i] = c]
    ELSE c

lower(v) == [i \in 1..Len(v) |-> lower_char(v[i])]

upper(v) == [i \in 1..Len(v) |-> upper_char(v[i])]

\* str.replace(old, new), for single characters.
replace(v, old, new) == [i \in 1..Len(v) |-> IF v[i] = old THEN new ELSE v[i]]

\* PlatformType: the values of the members, as strings of characters.
PlatformTypeValues ==
    {<<"h", "y", "p", "e", "r", "s", "c", "a", "l", "e", "r">>,
     <<"g", "p", "u", "_", "c", "l", "o", "u", "d">>,
     <<"e", "d", "g", "e", "_", "c", "l", "o", "u", "d">>,
     <<"h", "y", "b", "r", "i", "d", "_", "c", "l", "o", "u", "d">>,
     <<"p", "r", "i", "v", "a", "t", "e", "_", "c", "l", "o", "u", "d">>,
     <<"s", "p", "e", "c", "i", "a", "l", "i", "z", "e", "d", "_", "a", "i">>,
     <<"c", "o", "n", "t", "a", "i", "n", "e", "r", "_", "p", "l", "a", "t", "f", "o", "r", "m">>,
     <<"s", "e", "r", "v", "e", "r", "l", "e", "s", "s">>,
     <<"o", "t", "h", "e", "r">>}

\* DatacenterTier: the values of the members, as strings of characters.
DatacenterTierValues ==
    {<<"t", "i", "e", "r", "_", "1">>,
     <<"t", "i", "e", "r", "_", "2">>,
     <<"t", "i", "e", "r", "_", "3">>,
     <<"t", "i", "e", "r", "_", "4">>,
     <<"t", "i", "e", "r", "_", "5">>,
     <<"c", "o", "l", "o", "c", "a", "t", "i", "o", "n">>,
     <<"e", "d", "g", "e">>,
     <<"h", "y", "b", "r", "i", "d">>,
     <<"u", "n", "k", "n", "o", "w", "n">>}

\* ComplianceStatus: the values of the members, as strings of characters.
ComplianceStatusValues ==
    {<<"c", "e", "r", "t", "i", "f", "i", "e", "d">>,
     <<"i", "n", "_", "p", "r", "o", "g", "r", "e", "s", "s">>,
     <<"p", "l", "a", "n", "n", "e", "d">>,
     <<"n", "o", "t", "_", "a", "p", "p", "l", "i", "c", "a", "b", "l", "e">>,
     <<"u", "n", "k", "n", "o", "w", "n">>}

\* PricingType: the values of the members, as strings of characters.
PricingTypeValues ==
    {<<"o", "n", "_", "d", "e", "m", "a", "n", "d">>,
     <<"r", "e", "s", "e", "r", "v", "e", "d">>,
     <<"s", "p", "o", "t">>,
     <<"p", "r", "e", "e", "m", "p", "t", "i", "b", "l", "e">>,
     <<"d", "e", "d", "i", "c", "a", "t", "e", "d">>,
     <<"b", "u", "r", "s", "t", "a", "b", "l", "e">>}

\* BillingIncrement: the values of the members, as strings of characters.
BillingIncrementValues ==
    {<<"p", "e", "r", "_", "s", "e", "c", "o", "n", "d">>,
     <<"p", "e", "r", "_", "m", "i", "n", "u", "t", "e">>,
     <<"p", "e", "r", "_", "h", "o", "u", "r">>,
     <<"p", "e", "r", "_", "d", "a", "y">>,
     <<"p", "e", "r", "_", "m", "o", "n", "t", "h">>,
     <<"p", "e", "r", "_", "y", "e", "a", "r">>,
     <<"o", "n", "e", "_", "t", "i", "m", "e">>,
     <<"c", "u", "s", "t", "o", "m">>}

\* The enum-valued fields that have a validator, and the enum of each.
EnumFields ==
    {"platform_type", "primary_datacenter_tier", "datacenter_tier", "status",
     "pricing_type", "billing_increment"}

Vocabulary(field) ==
    CASE field = "platform_type" -> PlatformTypeValues
      [] field = "primary_datacenter_tier" -> DatacenterTierValues
      [] field = "datacenter_tier" -> DatacenterTierValues
      [] field = "status" -> ComplianceStatusValues
      [] field = "pricing_type" -> PricingTypeValues
      [] field = "billing_increment" -> BillingIncrementValues

\* Mutant of normalized: the spaces are kept.
normalized_lower_only(v) == lower(v)

\* normalized = v.lower().replace(' ', '_')
normalized(v) == replace(lower(v), " ", "_")

\* The field validators (mode='before'): the member whose value is the
\* normalized input, or the input itself if there is none.
field_validator(field, v) ==
    IF normalized(v) \in Vocabulary(field) THEN normalized(v) ELSE v

\* The validation of an enum field, and what the router hands to the
\* controller: pydantic takes a string that is the value of a member and
\* rejects any other; the handler runs only on a validated body.
validate_enum_field(field, v) ==
    LET x == field_validator(field, v)
    IN  [accepted |-> x \in Vocabulary(field),
         value |-> x,
         passed_on |-> IF x \in Vocabulary(field) THEN {x} ELSE {}]

\* Inputs: the spellings of a member (cases, spaces for underscores) and
\* near misses (a hyphen, a surrounding space, a missing first character).
Spellings(w) ==
    {w, upper(w), replace(w, "_", " "), replace(upper(w), "_", " "),
     replace(w, "_", "-"), w \o <<" ">>, <<" ">> \o w, Tail(w)}
    \cup {[w EXCEPT ![i] = upper_char(w[i])] : i \in 1..Len(w)}

EnumInputs ==
    UNION {Spellings(w) : w \in UNION {Vocabulary(f) : f \in EnumFields}}

---------------------------------------------------------------------------
\* The ten categories of an evaluation, in the order of
\* MLOpsPlatformEvaluation.overall_platform_score.
Categories ==
    <<"compute_and_scaling",
      "data_management",
      "model_development",
      "mlops_pipeline",
      "model_deployment",
      "monitoring_and_observability",
      "security_and_compliance",
      "cost_management",
      "developer_experience",
      "performance_and_reliability">>

\* The sub-scores of each category (model.score), each an int in 1..10: the
\* first sub-score is x, the others are y.
CategoryScores(name, x, y) ==
    CASE name = "compute_and_scaling" ->
           [compute_variety_score |-> x, auto_scaling_score |-> y,
            spot_instance_support |-> y, distributed_training_support |-> y]
      [] name = "data_management" ->
           [storage_options_score |-> x, data_versioning_score |-> y,
            data_pipeline_orchestration |-> y, data_integration_score |-> y]
      [] name = "model_development" ->
           [framework_support_score |-> x, experiment_tracking_score |-> y,
            hyperparameter_tuning_score |-> y,
            notebook_environment_score |-> y]
      [] name = "mlops_pipeline" ->
           [workflow_orchestration_score |-> x,
            cicd_integration_score |-> y, model_validation_score |-> y,
            environment_management_score |-> y]
      [] name = "model_deployment" ->
           [deployment_options_score |-> x,
            real_time_inference_score |-> y, batch_inference_score |-> y,
            ab_testing_score |-> y, canary_deployment_score |-> y]
      [] name = "monitoring_and_observability" ->
           [model_performance_monitoring |-> x, data_drift_detection |-> y,
            infrastructure_monitoring |-> y, logging_and_alerting |-> y,
            model_explainability |-> y]
      [] name = "security_and_compliance" ->
           [identity_access_management |-> x, data_encryption |-> y,
            compliance_certifications |-> y, network_security |-> y,
            audit_logging |-> y]
      [] name = "cost_management" ->
           [cost_transparency |-> x, resource_optimization |-> y,
            pricing_flexibility |-> y, cost_prediction_score |-> y]
      [] name = "developer_experience" ->
           [api_sdk_quality |-> x, tool_integration |-> y,
            documentation_quality |-> y, community_support |-> y,
            migration_tools |-> y]
      [] name = "performance_and_reliability" ->
           [sla_score |-> x, global_availability |-> y,
            disaster_recovery |-> y, performance_benchmarks |-> y]

\* A quotient a / b, kept exact.
Quotient(a, b) == [num |-> a, den |-> b]

\* Mutant of overall_score: every category is divided by 4.
overall_score_by_four(name, self) ==
    LET fields == DOMAIN self
        f == CHOOSE g \in [1..Cardinality(fields) -> fields] :
                 \A i, j \in 1..Cardinality(fields) : i # j => g[i] # g[j]
        RECURSIVE Total(_)
        Total(n) == IF n = 0 THEN 0 ELSE self[f[n]] + Total(n - 1)
    IN  Quotient(Total(Cardinality(fields)), 4)

\* The property overall_score of each category class.
overall_score(name, self) ==
    CASE name = "compute_and_scaling" ->
           Quotient(self.compute_variety_score + self.auto_scaling_score +
                    self.spot_instance_support +
                    self.distributed_training_support,
                    4)
      [] name = "data_management" ->
           Quotient(self.storage_options_score +
                    self.data_versioning_score +
                    self.data_pipeline_orchestration +
                    self.data_integration_score,
                    4)
      [] name = "model_development" ->
           Quotient(self.framework_support_score +
                    self.experiment_tracking_score +
                    self.hyperparameter_tuning_score +
                    self.notebook_environment_score,
                    4)
      [] name = "mlops_pipeline" ->
           Quotient(self.workflow_orchestration_score +
                    self.cicd_integration_score +
                    self.model_validation_score +
                    self.environment_management_score,
                    4)
      [] name = "model_deployment" ->
           Quotient(self.deployment_options_score +
                    self.real_time_inference_score +
                    self.batch_inference_score + self.ab_testing_score +
                    self.canary_deployment_score,
                    5)
      [] name = "monitoring_and_observability" ->
           Quotient(self.model_performance_monitoring +
                    self.data_drift_detection +
                    self.infrastructure_monitoring +
                    self.logging_and_alerting + self.model_explainability,
                    5)
      [] name = "security_and_compliance" ->
           Quotient(self.identity_access_management +
                    self.data_encryption + self.compliance_certifications +
                    self.network_security + self.audit_logging,
                    5)
      [] name = "cost_management" ->
           Quotient(self.cost_transparency + self.resource_optimization +
                    self.pricing_flexibility + self.cost_prediction_score,
                    4)
      [] name = "developer_experience" ->
           Quotient(self.api_sdk_quality + self.tool_integration +
                    self.documentation_quality + self.community_support +
                    self.migration_tools,
                    5)
      [] name = "performance_and_reliability" ->
           Quotient(self.sla_score + self.global_availability +
                    self.disaster_recovery + self.performance_benchmarks,
                    4)

\* sum(scores) / len(scores) for a list of quotients whose denominators
\* are 4 or 5.
mean_of_quotients(scores) ==
    LET RECURSIVE Total(_)
        Total(n) == IF n = 0 THEN 0
                    ELSE scores[n].num * (20 \div scores[n].den) + Total(n - 1)
    IN  Quotient(Total(Len(scores)), 20 * Len(scores))

\* MLOpsPlatformEvaluation.overall_platform_score, lines 534-549.
overall_platform_score(self) ==
    mean_of_quotients([i \in 1..Len(Categories) |->
                          overall_score(Categories[i], self[Categories[i]])])

\* Sub-scores used as inputs (1..10 is the valid range).
ScoreValues == {1, 5, 10}

\* An evaluation whose first category has sub-scores (x, y, ...), whose
\* other four-score categories have (u, v, ...) and whose five-score
\* categories have (v, u, ...).
EvaluationScores(x, y, u, v) ==
    [name \in {Categories[i] : i \in 1..Len(Categories)} |->
        IF name = "compute_and_scaling" THEN CategoryScores(name, x, y)
        ELSE IF Cardinality(DOMAIN CategoryScores(name, u, v)) = 4
             THEN CategoryScores(name, u, v)
             ELSE CategoryScores(name, v, u)]

InitPure ==
    /\ fn = "none"
    /\ fn_in = <<>>
    /\ fn_out = <<>>

\* The call has returned; the next call starts afresh.
PureReturn ==
    /\ fn # "none"
    /\ fn' = "none"
    /\ fn_in' = <<>>
    /\ fn_out' = <<>>
    /\ UNCHANGED otherThanPure

\* A platform row is converted.
call_convert_platform_data ==
    /\ fn = "none"
    /\ \E platform \in PlatformRows :
          /\ fn_in' = platform
          /\ fn_out' = convert_platform_data(platform)
    /\ fn' = "convert_platform_data"
    /\ UNCHANGED otherThanPure

\* A region is persisted on its own.
call_create_geographic_region ==
    /\ fn = "none"
    /\ \E region_data \in GeographicRegionModels :
          /\ fn_in' = region_data
          /\ fn_out' = create_geographic_region(region_data)
    /\ fn' = "create_geographic_region"
    /\ UNCHANGED otherThanPure

\* A region is persisted as part of a platform.
call_create_platform_region ==
    /\ fn = "none"
    /\ \E region_data \in GeographicRegionModels :
          /\ fn_in' = region_data
          /\ fn_out' = create_platform_region(region_data)
    /\ fn' = "create_platform_region"
    /\ UNCHANGED otherThanPure

\* An enum-valued field of a request body is validated.
call_validate_enum_field ==
    /\ fn = "none"
    /\ \E field \in EnumFields : \E v \in EnumInputs :
          /\ fn_in' = [field |-> field, v |-> v]
          /\ fn_out' = validate_enum_field(field, v)
    /\ fn' = "validate_enum_field"
    /\ UNCHANGED otherThanPure

\* The scores of an evaluation are computed.
call_overall_platform_score ==
    /\ fn = "none"
    /\ \E x \in ScoreValues, y \in ScoreValues, u \in ScoreValues, v \in ScoreValues :
          LET self == EvaluationScores(x, y, u, v)
          IN  /\ fn_in' = self
              /\ fn_out' =
                    [overall_platform_score |-> overall_platform_score(self),
                     proficiency_summary |->
                        [name \in DOMAIN self |-> overall_score(name, self[name])]]
    /\ fn' = "overall_platform_score"
    /\ UNCHANGED otherThanPure

NextPure ==
    \/ PureReturn
    \/ call_convert_platform_data
    \/ call_create_geographic_region
    \/ call_create_platform_region
    \/ call_validate_enum_field
    \/ call_overall_platform_score

(***************************************************************************)
(*        Part IV : the platform evaluations (controller/scores.py)        *)
(***************************************************************************)
\* The tables of schema scores: ten category tables and the root table.
CategoryTables == {Categories[i] : i \in 1..Len(Categories)}

\* The columns a _create_* helper gives the row of its category.
create_category(name, data) ==
    CASE name = "compute_and_scaling" ->
           [compute_variety |-> data.compute_variety_score,
            auto_scaling_score |-> data.auto_scaling_score,
            spot_instance_support |-> data.spot_instance_support,
            distributed_training_support |-> data.distributed_training_support]
      [] name = "data_management" ->
           [storage_options_score |-> data.storage_options_score,
            data_versioning_score |-> data.data_versioning_score,
            data_pipeline_orchestration |-> data.data_pipeline_orchestration,
            data_integration_score |-> data.data_integration_score]
      [] name = "model_development" ->
           [framework_support_score |-> data.framework_support_score,
            experiment_tracking_score |-> data.experiment_tracking_score,
            hyperparameter_tuning_score |-> data.hyperparameter_tuning_score,
            notebook_environment_score |-> data.notebook_environment_score]
      [] name = "mlops_pipeline" ->
           [workflow_orchestration_score |-> data.workflow_orchestration_score,
            cicd_integration_score |-> data.cicd_integration_score,
            model_validation_score |-> data.model_validation_score,
            environment_management_score |-> data.environment_management_score]
      [] name = "model_deployment" ->
           [deployment_options_score |-> data.deployment_options_score,
            real_time_inference_score |-> data.real_time_inference_score,
            batch_inference_score |-> data.batch_inference_score,
            ab_testing_score |-> data.ab_testing_score,
            canary_deployment_score |-> data.canary_deployment_score]
      [] name = "monitoring_and_observability" ->
           [model_performance_monitoring |-> data.model_performance_monitoring,
            data_drift_detection |-> data.data_drift_detection,
            infrastructure_monitoring |-> data.infrastructure_monitoring,
            logging_and_alerting |-> data.logging_and_alerting,
            model_explainability |-> data.model_explainability]
      [] name = "security_and_compliance" ->
           [identity_access_management |-> data.identity_access_management,
            data_encryption |-> data.data_encryption,
            compliance_certifications |-> data.compliance_certifications,
            network_security |-> data.network_security,
            audit_logging |-> data.audit_logging]
      [] name = "cost_management" ->
           [cost_transparency |-> data.cost_transparency,
            resource_optimization |-> data.resource_optimization,
            pricing_flexibility |-> data.pricing_flexibility,
            cost_prediction_score |-> data.cost_prediction_score]
      [] name = "developer_experience" ->
           [api_sdk_quality |-> data.api_sdk_quality,
            tool_integration |-> data.tool_integration,
            documentation_quality |-> data.documentation_quality,
            community_support |-> data.community_support,
            migration_tools |-> data.migration_tools]
      [] name = "performance_and_reliability" ->
           [sla_score |-> data.sla_score,
            global_availability |-> data.global_availability,
            disaster_recovery |-> data.disaster_recovery,
            performance_benchmarks |-> data.performance_benchmarks]

\* Mutant of update_category: the first column of every category keeps its
\* old value.
update_category_but_first(name, db_obj, model_obj) ==
    CASE name = "compute_and_scaling" ->
           [db_obj EXCEPT !.auto_scaling_score = model_obj.auto_scaling_score,
                          !.spot_instance_support = model_obj.spot_instance_support,
                          !.distributed_training_support = model_obj.distributed_training_support]
      [] name = "data_management" ->
           [db_obj EXCEPT !.data_versioning_score = model_obj.data_versioning_score,
                          !.data_pipeline_orchestration = model_obj.data_pipeline_orchestration,
                          !.data_integration_score = model_obj.data_integration_score]
      [] name = "model_development" ->
           [db_obj EXCEPT !.experiment_tracking_score = model_obj.experiment_tracking_score,
                          !.hyperparameter_tuning_score = model_obj.hyperparameter_tuning_score,
                          !.notebook_environment_score = model_obj.notebook_environment_score]
      [] name = "mlops_pipeline" ->
           [db_obj EXCEPT !.cicd_integration_score = model_obj.cicd_integration_score,
                          !.model_validation_score = model_obj.model_validation_score,
                          !.environment_management_score = model_obj.environment_management_score]
      [] name = "model_deployment" ->
           [db_obj EXCEPT !.real_time_inference_score = model_obj.real_time_inference_score,
                          !.batch_inference_score = model_obj.batch_inference_score,
                          !.ab_testing_score = model_obj.ab_testing_score,
                          !.canary_deployment_score = model_obj.canary_deployment_score]
      [] name = "monitoring_and_observability" ->
           [db_obj EXCEPT !.data_drift_detection = model_obj.data_drift_detection,
                          !.infrastructure_monitoring = model_obj.infrastructure_monitoring,
                          !.logging_and_alerting = model_obj.logging_and_alerting,
                          !.model_explainability = model_obj.model_explainability]
      [] name = "security_and_compliance" ->
           [db_obj EXCEPT !.data_encryption = model_obj.data_encryption,
                          !.compliance_certifications = model_obj.compliance_certifications,
                          !.network_security = model_obj.network_security,
                          !.audit_logging = model_obj.audit_logging]
      [] name = "cost_management" ->
           [db_obj EXCEPT !.resource_optimization = model_obj.resource_optimization,
                          !.pricing_flexibility = model_obj.pricing_flexibility,
                          !.cost_prediction_score = model_obj.cost_prediction_score]
      [] name = "developer_experience" ->
           [db_obj EXCEPT !.tool_integration = model_obj.tool_integration,
                          !.documentation_quality = model_obj.documentation_quality,
                          !.community_support = model_obj.community_support,
                          !.migration_tools = model_obj.migration_tools]
      [] name = "performance_and_reliability" ->
           [db_obj EXCEPT !.global_availability = model_obj.global_availability,
                          !.disaster_recovery = model_obj.disaster_recovery,
                          !.performance_benchmarks = model_obj.performance_benchmarks]

\* The columns of a category row after its _update_* helper.
update_category(name, db_obj, model_obj) ==
    CASE name = "compute_and_scaling" ->
           [db_obj EXCEPT !.compute_variety = model_obj.compute_variety_score,
                          !.auto_scaling_score = model_obj.auto_scaling_score,
                          !.spot_instance_support = model_obj.spot_instance_support,
                          !.distributed_training_support = model_obj.distributed_training_support]
      [] name = "data_management" ->
           [db_obj EXCEPT !.storage_options_score = model_obj.storage_options_score,
                          !.data_versioning_score = model_obj.data_versioning_score,
                          !.data_pipeline_orchestration = model_obj.data_pipeline_orchestration,
                          !.data_integration_score = model_obj.data_integration_score]
      [] name = "model_development" ->
           [db_obj EXCEPT !.framework_support_score = model_obj.framework_support_score,
                          !.experiment_tracking_score = model_obj.experiment_tracking_score,
                          !.hyperparameter_tuning_score = model_obj.hyperparameter_tuning_score,
                          !.notebook_environment_score = model_obj.notebook_environment_score]
      [] name = "mlops_pipeline" ->
           [db_obj EXCEPT !.workflow_orchestration_score = model_obj.workflow_orchestration_score,
                          !.cicd_integration_score = model_obj.cicd_integration_score,
                          !.model_validation_score = model_obj.model_validation_score,
                          !.environment_management_score = model_obj.environment_management_score]
      [] name = "model_deployment" ->
           [db_obj EXCEPT !.deployment_options_score = model_obj.deployment_options_score,
                          !.real_time_inference_score = model_obj.real_time_inference_score,
                          !.batch_inference_score = model_obj.batch_inference_score,
                          !.ab_testing_score = model_obj.ab_testing_score,
                          !.canary_deployment_score = model_obj.canary_deployment_score]
      [] name = "monitoring_and_observability" ->
           [db_obj EXCEPT !.model_performance_monitoring = model_obj.model_performance_monitoring,
                          !.data_drift_detection = model_obj.data_drift_detection,
                          !.infrastructure_monitoring = model_obj.infrastructure_monitoring,
                          !.logging_and_alerting = model_obj.logging_and_alerting,
                          !.model_explainability = model_obj.model_explainability]
      [] name = "security_and_compliance" ->
           [db_obj EXCEPT !.identity_access_management = model_obj.identity_access_management,
                          !.data_encryption = model_obj.data_encryption,
                          !.compliance_certifications = model_obj.compliance_certifications,
                          !.network_security = model_obj.network_security,
                          !.audit_logging = model_obj.audit_logging]
      [] name = "cost_management" ->
           [db_obj EXCEPT !.cost_transparency = model_obj.cost_transparency,
                          !.resource_optimization = model_obj.resource_optimization,
                          !.pricing_flexibility = model_obj.pricing_flexibility,
                          !.cost_prediction_score = model_obj.cost_prediction_score]
      [] name = "developer_experience" ->
           [db_obj EXCEPT !.api_sdk_quality = model_obj.api_sdk_quality,
                          !.tool_integration = model_obj.tool_integration,
                          !.documentation_quality = model_obj.documentation_quality,
                          !.community_support = model_obj.community_support,
                          !.migration_tools = model_obj.migration_tools]
      [] name = "performance_and_reliability" ->
           [db_obj EXCEPT !.sla_score = model_obj.sla_score,
                          !.global_availability = model_obj.global_availability,
                          !.disaster_recovery = model_obj.disaster_recovery,
                          !.performance_benchmarks = model_obj.performance_benchmarks]

\* The category model _convert_to_model builds from a category row.
convert_category(name, row) ==
    CASE name = "compute_and_scaling" ->
           [compute_variety_score |-> row.compute_variety,
            auto_scaling_score |-> row.auto_scaling_score,
            spot_instance_support |-> row.spot_instance_support,
            distributed_training_support |-> row.distributed_training_support]
      [] name = "data_management" ->
           [storage_options_score |-> row.storage_options_score,
            data_versioning_score |-> row.data_versioning_score,
            data_pipeline_orchestration |-> row.data_pipeline_orchestration,
            data_integration_score |-> row.data_integration_score]
      [] name = "model_development" ->
           [framework_support_score |-> row.framework_support_score,
            experiment_tracking_score |-> row.experiment_tracking_score,
            hyperparameter_tuning_score |-> row.hyperparameter_tuning_score,
            notebook_environment_score |-> row.notebook_environment_score]
      [] name = "mlops_pipeline" ->
           [workflow_orchestration_score |-> row.workflow_orchestration_score,
            cicd_integration_score |-> row.cicd_integration_score,
            model_validation_score |-> row.model_validation_score,
            environment_management_score |-> row.environment_management_score]
      [] name = "model_deployment" ->
           [deployment_options_score |-> row.deployment_options_score,
            real_time_inference_score |-> row.real_time_inference_score,
            batch_inference_score |-> row.batch_inference_score,
            ab_testing_score |-> row.ab_testing_score,
            canary_deployment_score |-> row.canary_deployment_score]
      [] name = "monitoring_and_observability" ->
           [model_performance_monitoring |-> row.model_performance_monitoring,
            data_drift_detection |-> row.data_drift_detection,
            infrastructure_monitoring |-> row.infrastructure_monitoring,
            logging_and_alerting |-> row.logging_and_alerting,
            model_explainability |-> row.model_explainability]
      [] name = "security_and_compliance" ->
           [identity_access_management |-> row.identity_access_management,
            data_encryption |-> row.data_encryption,
            compliance_certifications |-> row.compliance_certifications,
            network_security |-> row.network_security,
            audit_logging |-> row.audit_logging]
      [] name = "cost_management" ->
           [cost_transparency |-> row.cost_transparency,
            resource_optimization |-> row.resource_optimization,
            pricing_flexibility |-> row.pricing_flexibility,
            cost_prediction_score |-> row.cost_prediction_score]
      [] name = "developer_experience" ->
           [api_sdk_quality |-> row.api_sdk_quality,
            tool_integration |-> row.tool_integration,
            documentation_quality |-> row.documentation_quality,
            community_support |-> row.community_support,
            migration_tools |-> row.migration_tools]
      [] name = "performance_and_reliability" ->
           [sla_score |-> row.sla_score,
            global_availability |-> row.global_availability,
            disaster_recovery |-> row.disaster_recovery,
            performance_benchmarks |-> row.performance_benchmarks]

\* The foreign keys of the root row, from the ids of the ten new category
\* rows (create_platform_evaluation, lines 110-119).
foreign_keys(children) ==
    [compute_and_scaling |-> children.compute_and_scaling,
     data_management |-> children.data_management,
     model_development |-> children.model_development,
     mlops_pipeline |-> children.mlops_pipeline,
     model_deployment |-> children.model_deployment,
     monitoring_and_observability |-> children.monitoring_and_observability,
     security_and_compliance |-> children.security_and_compliance,
     cost_management |-> children.cost_management,
     developer_experience |-> children.developer_experience,
     performance_and_reliability |-> children.performance_and_reliability]

\* str(n) and int(s) on the platform ids used here; int raises ValueError on
\* any other non-empty string.
int_raises(s) == s \notin {"1", "2"}

int_of(s) == IF s = "1" THEN 1 ELSE 2

str_of(n) == IF n = 1 THEN "1" ELSE "2"

\* An evaluator id of more than 64 characters, which column
\* evaluator_id String(64) rejects.
LongEvaluatorId == "an evaluator id of more than 64 characters"

\* MLOpsPlatformEvaluation values used as inputs.  platform_id "" stands for
\* a missing or empty platform_id; the ten category models are kept together
\* in field scores.  The overall scores of the three profiles are 5.0, 8.0
\* and 6.0.
ScoreProfiles ==
    {EvaluationScores(5, 5, 5, 5), EvaluationScores(8, 8, 8, 8),
     EvaluationScores(3, 7, 6, 6)}

EvaluationDates == {1, 2}

Evaluation(p, d, e, s) ==
    [platform_id |-> p, platform_type |-> "hyperscaler",
     evaluation_date |-> d, evaluator_id |-> e, scores |-> s]

\* The evaluations given to create_platform_evaluation.
EvaluationInputs ==
    {Evaluation(p, d, "U1", s) :
        p \in {"", "1", "2", "x"}, d \in EvaluationDates, s \in ScoreProfiles}

\* The evaluations given to update_platform_evaluation, which reads neither
\* platform_id nor evaluation_date.
UpdateInputs ==
    {Evaluation("", 1, e, s) :
        e \in {"U1", LongEvaluatorId}, s \in ScoreProfiles}

\* The local variables and the session of the controller call in progress.
InitSLoc ==
    [op |-> "idle", pc |-> "idle", arg |-> 0, data |-> {},
     children |-> [name \in CategoryTables |-> 0],
     flushed |-> {}, pending |-> {}, before |-> {}, raised |-> "",
     result |-> <<>>, missing |-> FALSE, status |-> 0]

InitScore ==
    /\ sdb = {}
    /\ sseqs = [t \in CategoryTables \cup {"platform_evaluation"} |-> 0]
    /\ sloc = InitSLoc

\* The rows of table platform_evaluation among rows.
Evaluations(rows) == {r \in rows : r.table = "platform_evaluation"}

\* The row a relationship of an evaluation loads, as a set of at most one.
related_category(rows, evaluation, name) ==
    {r \in rows : r.table = name /\ r.id = evaluation.fks[name]}

\* _convert_to_model, lines 301-372.
convert_to_model(evaluation, rows) ==
    [platform_id |-> str_of(evaluation.platform_id),
     platform_type |-> evaluation.platform_type,
     evaluation_date |-> evaluation.evaluation_date,
     evaluator_id |-> evaluation.evaluator_id,
     scores |-> [name \in CategoryTables |->
                   convert_category(name,
                       (CHOOSE r \in related_category(rows, evaluation, name) :
                            TRUE).cols)]]

\* Mutant of score_rollback: the flushed rows stay.
score_rollback_keeps_flushed(committed, flushed) == committed \cup flushed

\* session.rollback(): the rows of the session are discarded.
score_rollback(committed, flushed) == committed

\* The category whose row create_platform_evaluation creates next.
next_category(children) ==
    Categories[CHOOSE i \in 1..Len(Categories) :
                  /\ children[Categories[i]] = 0
                  /\ \A j \in 1..(i - 1) : children[Categories[j]] # 0]

\* create_platform_evaluation is called (line 75).
create_platform_evaluation ==
    /\ sloc.pc = "idle"
    /\ sseqs["compute_and_scaling"] < MaxEvaluations
    /\ \E evaluation_data \in EvaluationInputs :
          sloc' = [InitSLoc EXCEPT !.op = "create", !.pc = "children",
                                   !.data = {evaluation_data}, !.before = sdb]
    /\ UNCHANGED <<sdb, sseqs>>
    /\ UNCHANGED otherThanScore

\* One _create_* helper: the category row is added and flushed, which gives
\* it its id (lines 82-101 and 452-574).
create_score_component ==
    /\ sloc.pc = "children"
    /\ LET name == next_category(sloc.children)
           data == CHOOSE d \in sloc.data : TRUE
           id == sseqs[name] + 1
           row == [table |-> name, id |-> id,
                   cols |-> create_category(name, data.scores[name])]
       IN  /\ sseqs' = [sseqs EXCEPT ![name] = id]
           /\ sloc' = [sloc EXCEPT
                         !.children[name] = id,
                         !.flushed = @ \cup {row},
                         !.pc = IF name = Categories[Len(Categories)]
                                THEN "root" ELSE "children"]
    /\ UNCHANGED sdb
    /\ UNCHANGED otherThanScore

\* The main evaluation record is built and added (lines 104-121); int() of a
\* platform_id that is no number raises, and the except clause rolls back.
create_evaluation_record ==
    /\ sloc.pc = "root"
    /\ LET data == CHOOSE d \in sloc.data : TRUE
       IN  IF data.platform_id # "" /\ int_raises(data.platform_id)
           THEN /\ sloc' = [sloc EXCEPT !.flushed = {}, !.pc = "done",
                                        !.raised = "ValueError"]
                /\ sdb' = score_rollback(sdb, sloc.flushed)
           ELSE /\ sloc' = [sloc EXCEPT
                     !.pending =
                        {[table |-> "platform_evaluation", id |-> 0,
                          platform_id |-> IF data.platform_id # ""
                                          THEN int_of(data.platform_id) ELSE 0,
                          platform_type |-> data.platform_type,
                          evaluation_date |-> data.evaluation_date,
                          evaluator_id |-> data.evaluator_id,
                          fks |-> foreign_keys(sloc.children)]},
                     !.pc = "commit"]
                /\ UNCHANGED sdb
    /\ UNCHANGED sseqs
    /\ UNCHANGED otherThanScore

\* A row of platform_evaluation the database accepts: platform_id (0 is
\* NULL) is NOT NULL and evaluator_id is a String(64).
accepted(evaluation) ==
    /\ evaluation.platform_id # 0
    /\ evaluation.evaluator_id # LongEvaluatorId

\* session.commit(), refresh and conversion (lines 122-127); a rejected
\* insert raises and the except clause rolls back (lines 129-132).
commit_evaluation ==
    /\ sloc.pc = "commit"
    /\ LET id == sseqs["platform_evaluation"] + 1
           evaluation == [(CHOOSE r \in sloc.pending : TRUE) EXCEPT !.id = id]
       IN  /\ sseqs' = [sseqs EXCEPT !["platform_evaluation"] = id]
           /\ IF accepted(evaluation)
              THEN /\ sdb' = sdb \cup sloc.flushed \cup {evaluation}
                   /\ sloc' = [sloc EXCEPT
                                 !.flushed = {}, !.pending = {}, !.pc = "done",
                                 !.arg = id,
                                 !.result = <<convert_to_model(evaluation, sdb')>>]
              ELSE /\ sdb' = score_rollback(sdb, sloc.flushed)
                   /\ sloc' = [sloc EXCEPT
                                 !.flushed = {}, !.pending = {}, !.pc = "done",
                                 !.raised = "SQLAlchemyError"]
    /\ UNCHANGED otherThanScore

\* The controller call returns or has raised.
ScoreReturn ==
    /\ sloc.pc = "done"
    /\ sloc' = InitSLoc
    /\ UNCHANGED <<sdb, sseqs>>
    /\ UNCHANGED otherThanScore

\* POST /scores/{platform_id} (routers/score.py, lines 114-126): the
\* controller method is called with two arguments where it takes one, the
\* TypeError becomes HTTP status 500 and nothing is stored.
create_evaluation ==
    /\ sloc.pc = "idle"
    /\ \E platform_id \in 1..MaxPlatforms :
          sloc' = [InitSLoc EXCEPT !.op = "create_evaluation", !.pc = "done",
                                   !.arg = platform_id,
                                   !.before = sdb,
                                   !.raised = "HTTPException 500",
                                   !.status = 500]
    /\ UNCHANGED <<sdb, sseqs>>
    /\ UNCHANGED otherThanScore

\* The status with which the routes of routers/score.py answer: each route
\* calls the controller inside try, raises HTTPException(404) inside that
\* same try when the result is None, False or empty, and its
\* `except Exception` turns every exception, that one included, into
\* HTTPException(500).
score_route_status(missing, raised) ==
    IF raised \/ missing THEN 500 ELSE 200

\* GET /scores/{evaluation_id} (routers/score.py, lines 101-111) with
\* get_platform_evaluation (lines 134-142).
get_evaluation ==
    /\ sloc.pc = "idle"
    /\ \E evaluation_id \in 1..MaxEvaluations :
          LET found == {r \in Evaluations(sdb) : r.id = evaluation_id}
          IN  sloc' = [InitSLoc EXCEPT
                         !.op = "get_evaluation", !.pc = "done",
                         !.arg = evaluation_id, !.before = sdb,
                         !.missing = (found = {}),
                         !.result = IF found = {} THEN <<>>
                                    ELSE <<convert_to_model(
                                             CHOOSE r \in found : TRUE, sdb)>>,
                         !.status = score_route_status(found = {}, FALSE)]
    /\ UNCHANGED <<sdb, sseqs>>
    /\ UNCHANGED otherThanScore

\* An update that also assigned evaluation_date from the data.
updated_rows_with_date(rows, evaluation, data) ==
    {IF r.table \in CategoryTables
     THEN IF r \in related_category(rows, evaluation, r.table)
          THEN [r EXCEPT !.cols = update_category(r.table, r.cols,
                                                  data.scores[r.table])]
          ELSE r
     ELSE IF r.id = evaluation.id
          THEN [r EXCEPT !.platform_type = data.platform_type,
                         !.evaluator_id = data.evaluator_id,
                         !.evaluation_date = data.evaluation_date]
          ELSE r
     : r \in rows}

\* The rows after the ten _update_* helpers and the two assignments to the
\* root row (lines 182-215); a relationship that loads no row is skipped.
updated_rows(rows, evaluation, data) ==
    {IF r.table \in CategoryTables
     THEN IF r \in related_category(rows, evaluation, r.table)
          THEN [r EXCEPT !.cols = update_category(r.table, r.cols,
                                                  data.scores[r.table])]
          ELSE r
     ELSE IF r.id = evaluation.id
          THEN [r EXCEPT !.platform_type = data.platform_type,
                         !.evaluator_id = data.evaluator_id]
          ELSE r
     : r \in rows}

\* update_platform_evaluation, lines 171-226.  The status is the one of
\* POST /scores/update/{evaluation_id} (routers/score.py, lines 129-143).
update_platform_evaluation ==
    /\ sloc.pc = "idle"
    /\ \E evaluation_id \in 1..MaxEvaluations, data \in UpdateInputs :
          LET found == {r \in Evaluations(sdb) : r.id = evaluation_id}
              call == [InitSLoc EXCEPT !.op = "update", !.pc = "done",
                                       !.arg = evaluation_id,
                                       !.data = {data}, !.before = sdb]
          IN  IF found = {}
              THEN /\ sloc' = [call EXCEPT
                                 !.missing = TRUE,
                                 !.status = score_route_status(TRUE, FALSE)]
                   /\ UNCHANGED sdb
              ELSE LET evaluation == CHOOSE r \in found : TRUE
                       rows == updated_rows(sdb, evaluation, data)
                       updated == CHOOSE r \in Evaluations(rows) :
                                      r.id = evaluation_id
                   IN  IF accepted(updated)
                       THEN /\ sdb' = rows
                            /\ sloc' = [call EXCEPT
                                 !.result =
                                     <<convert_to_model(updated, rows)>>,
                                 !.status = score_route_status(FALSE, FALSE)]
                       ELSE /\ sdb' = score_rollback(sdb, {})
                            /\ sloc' = [call EXCEPT
                                 !.raised = "SQLAlchemyError",
                                 !.status = score_route_status(FALSE, TRUE)]
    /\ UNCHANGED sseqs
    /\ UNCHANGED otherThanScore

\* delete_platform_evaluation, lines 228-245: the root row is deleted.  The
\* status is the one of DELETE /scores/{evaluation_id} (routers/score.py,
\* lines 146-156).
delete_platform_evaluation ==
    /\ sloc.pc = "idle"
    /\ \E evaluation_id \in 1..MaxEvaluations :
          LET found == {r \in Evaluations(sdb) : r.id = evaluation_id}
          IN  /\ sdb' = sdb \ found
              /\ sloc' = [InitSLoc EXCEPT !.op = "delete", !.pc = "done",
                                          !.arg = evaluation_id,
                                          !.before = sdb,
                                          !.result = <<found # {}>>,
                                          !.missing = (found = {}),
                                          !.status = score_route_status(
                                                         found = {}, FALSE)]
    /\ UNCHANGED sseqs
    /\ UNCHANGED otherThanScore

\* a < b for two quotients.
Less(a, b) == a.num * b.den < b.num * a.den

\* Mutant of latest_evaluations: the order is ascending.
oldest_evaluations(evaluations, p) ==
    {r \in evaluations :
        /\ r.platform_id = p
        /\ \A q \in evaluations :
              q.platform_id = p => q.evaluation_date >= r.evaluation_date}

\* The evaluations of platform p that can come first when the rows are
\* ordered by platform_id, evaluation_date desc (lines 279-285).
latest_evaluations(evaluations, p) ==
    {r \in evaluations :
        /\ r.platform_id = p
        /\ \A q \in evaluations :
              q.platform_id = p => q.evaluation_date <= r.evaluation_date}

\* The platform ids in ascending order, as a list.
RECURSIVE Ascending(_)
Ascending(S) ==
    IF S = {} THEN <<>>
    ELSE LET m == CHOOSE x \in S : \A y \in S : x <= y
         IN  <<m>> \o Ascending(S \ {m})

\* sorted(list, key=overall_score, reverse=True): a stable sort.
RECURSIVE sorted_by_score(_)
sorted_by_score(list) ==
    IF list = <<>> THEN <<>>
    ELSE LET rest == sorted_by_score(SubSeq(list, 1, Len(list) - 1))
             e == list[Len(list)]
             k == Cardinality({i \in 1..Len(rest) :
                                 ~ Less(rest[i].overall_score, e.overall_score)})
         IN  SubSeq(rest, 1, k) \o <<e>> \o SubSeq(rest, k + 1, Len(rest))

\* One entry of scored_platforms (lines 289-297).
scored_platform(evaluation, rows) ==
    LET eval_model == convert_to_model(evaluation, rows)
    IN  [platform_id |-> evaluation.platform_id,
         evaluation_id |-> evaluation.id,
         overall_score |-> overall_platform_score(eval_model.scores),
         evaluation_date |-> evaluation.evaluation_date,
         proficiency_scores |->
            [name \in CategoryTables |->
                overall_score(name, eval_model.scores[name])]]

\* get_top_platforms_by_score, lines 273-299.  Rows of one platform with the
\* same evaluation_date come in an order the database chooses.
get_top_platforms_by_score ==
    /\ sloc.pc = "idle"
    /\ \E limit \in 1..MaxLimit :
          LET evaluations == Evaluations(sdb)
              platform_ids == {r.platform_id : r \in evaluations}
              order == Ascending(platform_ids)
          IN  \E latest \in [platform_ids -> evaluations] :
                 /\ \A p \in platform_ids :
                       latest[p] \in latest_evaluations(evaluations, p)
                 /\ LET scored_platforms ==
                            [i \in 1..Len(order) |->
                                scored_platform(latest[order[i]], sdb)]
                        ranked == sorted_by_score(scored_platforms)
                    IN  sloc' = [InitSLoc EXCEPT
                                   !.op = "top", !.pc = "done",
                                   !.arg = limit, !.before = sdb,
                                   !.result = SubSeq(ranked, 1,
                                                 Min(limit, Len(ranked)))]
    /\ UNCHANGED <<sdb, sseqs>>
    /\ UNCHANGED otherThanScore

NextScore ==
    \/ create_platform_evaluation
    \/ create_score_component
    \/ create_evaluation_record
    \/ commit_evaluation
    \/ create_evaluation
    \/ get_evaluation
    \/ update_platform_evaluation
    \/ delete_platform_evaluation
    \/ get_top_platforms_by_score
    \/ ScoreReturn

(***************************************************************************)
(*   Part V : the platform row, its time stamp and the vector-index mirror *)
(*            (controller/platform.py)                                     *)
(***************************************************************************)
\* Platform names; LongName has more than the 512 characters of column
\* platform_name.
PlatformNames == {"a", "b"}

LongName == "a platform name of more than 512 characters"

\* The local variables of the controller call in progress, with the history
\* the claims need: the rows and the index when the call began, the rows at
\* its commit, and whether the mirror write was attempted and failed.
InitMLoc ==
    [op |-> "idle", pc |-> "idle", arg |-> 0, committed |-> FALSE,
     attempted |-> FALSE, failed |-> FALSE, raised |-> "", result |-> <<>>,
     before |-> {}, after |-> {}, index_before |-> {}, child_before |-> {}]

InitMirror ==
    /\ platforms = {}
    /\ platform_seq = 0
    /\ index = {}
    /\ clock = 1
    /\ mutated = [i \in {} |-> 0]
    /\ mloc = InitMLoc
    /\ child_tables = {}

\* Time passes.
MirrorTick ==
    /\ clock < MaxClock
    /\ clock' = clock + 1
    /\ UNCHANGED <<platforms, platform_seq, index, mutated, mloc, child_tables>>
    /\ UNCHANGED otherThanMirror

\* convert_sql_to_platform_model on the root row: the id is not passed on
\* (lines 55-75), so the model has id None.
platform_model(row) ==
    [id |-> "None", platform_name |-> row.platform_name,
     last_updated |-> row.last_updated]

\* The call as it begins.
BeginCall(op, arg) ==
    [InitMLoc EXCEPT !.op = op, !.arg = arg, !.before = platforms,
                     !.index_before = index, !.child_before = child_tables]

\* Mutant of swallowed: the failure of the mirror write is raised.
not_swallowed(call) ==
    [call EXCEPT !.failed = TRUE, !.pc = "done", !.result = <<>>,
                 !.raised = "PineconeException"]

\* Where the call stands after the exception handler around the mirror
\* write: the failure is logged and the call goes on to return its result.
swallowed(call) == [call EXCEPT !.failed = TRUE, !.pc = "done"]

\* The tables whose rows refer to a platform: platform_id, and for
\* pricing_model compute_instance_id, is a NOT NULL foreign key to
\* platform_information.id (sql_model/platforms.py, lines 123-252).
ReferringTables == ChildTables \cup {"pricing_model"}

\* Which lists of the aggregate given to create_platform hold an element:
\* none, the regions, or every list but the certifications.
ChildLists ==
    {{}, {"geographic_regions"},
     ReferringTables \ {"compliance_certification"}}

\* create_platform, lines 310-369: one row per list that holds an element,
\* each with the id of the flushed root row in platform_id.  The id is the
\* next of its table (the rows are flushed at the commit).
referring_rows(tables, platform_id, rows) ==
    {[table |-> tb,
      id |-> 1 + Cardinality({c \in rows : c.table = tb}),
      platform_id |-> platform_id] : tb \in tables}

\* create_platform up to and including the conversion of the committed row
\* (lines 268-375).  last_updated is the value of the request (the time the
\* request was parsed unless the client gave one); an aggregate with
\* compliance certifications raises TypeError after the root row was
\* flushed, and the call is rolled back.
create_platform_write ==
    /\ mloc.pc = "idle"
    /\ platform_seq < MaxPlatforms
    /\ \E name \in PlatformNames, last_updated \in {0, clock},
          lists \in ChildLists, compliance_certifications \in BOOLEAN :
          LET id == platform_seq + 1
              row == [id |-> id, platform_name |-> name,
                      last_updated |-> last_updated]
          IN  /\ platform_seq' = id
              /\ IF compliance_certifications
                 THEN /\ mloc' = [BeginCall("create", id) EXCEPT
                                     !.pc = "done", !.raised = "TypeError"]
                      /\ UNCHANGED <<platforms, mutated, child_tables>>
                 ELSE /\ platforms' = platforms \cup {row}
                      /\ child_tables' = child_tables \cup
                            referring_rows(lists, id, child_tables)
                      /\ mutated' = [i \in DOMAIN mutated \cup {id} |->
                                        IF i = id THEN clock ELSE mutated[i]]
                      /\ mloc' = [BeginCall("create", id) EXCEPT
                                     !.pc = "mirror", !.committed = TRUE,
                                     !.after = platforms',
                                     !.result = <<platform_model(row)>>]
    /\ UNCHANGED <<index, clock>>
    /\ UNCHANGED otherThanMirror

\* index.upsert_records of the record of a platform model: the record id is
\* str(platform.id).
upsert_records(records, platform) ==
    {r \in records : r.id # platform.id} \cup
        {[id |-> platform.id, platform_name |-> platform.platform_name]}

\* add_platform_to_pinecone inside its try block (lines 377-382 and
\* 726-749); the index is an external service and may fail.
add_platform_to_pinecone ==
    /\ mloc.pc = "mirror" /\ mloc.op = "create"
    /\ \E ok \in BOOLEAN :
          IF ok
          THEN /\ index' = upsert_records(index, mloc.result[1])
               /\ mloc' = [mloc EXCEPT !.attempted = TRUE, !.pc = "done"]
          ELSE /\ UNCHANGED index
               /\ mloc' = swallowed([mloc EXCEPT !.attempted = TRUE])
    /\ UNCHANGED <<platforms, platform_seq, clock, mutated, child_tables>>
    /\ UNCHANGED otherThanMirror

\* update_platform up to the conversion (lines 420-435), with update_data
\* {'platform_name': name}.
update_platform ==
    /\ mloc.pc = "idle"
    /\ \E platform_id \in 1..MaxPlatforms,
          name \in PlatformNames \cup {LongName} :
          LET found == {r \in platforms : r.id = platform_id}
          IN  IF found = {}
              THEN /\ mloc' = [BeginCall("update", platform_id) EXCEPT
                                  !.pc = "done"]
                   /\ UNCHANGED <<platforms, mutated>>
              ELSE LET platform == CHOOSE r \in found : TRUE
                       row == [platform EXCEPT !.platform_name = name,
                                               !.last_updated = clock]
                   IN  IF name = LongName
                       THEN /\ mloc' = [BeginCall("update", platform_id) EXCEPT
                                           !.pc = "done",
                                           !.raised = "SQLAlchemyError"]
                            /\ UNCHANGED <<platforms, mutated>>
                       ELSE /\ platforms' = (platforms \ found) \cup {row}
                            /\ mutated' = [mutated EXCEPT ![platform_id] = clock]
                            /\ mloc' = [BeginCall("update", platform_id) EXCEPT
                                           !.pc = "mirror", !.committed = TRUE,
                                           !.after = platforms',
                                           !.result = <<platform_model(row)>>]
    /\ UNCHANGED <<platform_seq, index, clock, child_tables>>
    /\ UNCHANGED otherThanMirror

\* update_platform_in_pinecone inside its try block (lines 437-443 and
\* 751-774).
update_platform_in_pinecone ==
    /\ mloc.pc = "mirror" /\ mloc.op = "update"
    /\ \E ok \in BOOLEAN :
          IF ok
          THEN /\ index' = upsert_records(index, mloc.result[1])
               /\ mloc' = [mloc EXCEPT !.attempted = TRUE, !.pc = "done"]
          ELSE /\ UNCHANGED index
               /\ mloc' = swallowed([mloc EXCEPT !.attempted = TRUE])
    /\ UNCHANGED <<platforms, platform_seq, clock, mutated, child_tables>>
    /\ UNCHANGED otherThanMirror

\* A flush that leaves the rows that refer to the deleted platform alone.
children_kept(rows, platform_id) == rows

\* The flush of session.delete(platform): the relationships to the rows
\* that refer to the platform are backrefs with no delete cascade
\* (sql_model/platforms.py, lines 137-252), so the unit of work sets the
\* foreign key of each such row to NULL, written 0.
nullify_children(rows, platform_id) ==
    {IF c.platform_id = platform_id THEN [c EXCEPT !.platform_id = 0] ELSE c
     : c \in rows}

\* The foreign keys are declared nullable=False.
not_null_violation(rows) == \E c \in rows : c.platform_id = 0

\* delete_platform up to its commit (lines 452-462).  The rows that refer
\* to the platform have a NOT NULL platform_id and no delete cascade, so
\* the delete of a platform that has such rows is rejected and rolled back.
delete_platform ==
    /\ mloc.pc = "idle"
    /\ \E platform_id \in 1..MaxPlatforms :
          LET found == {r \in platforms : r.id = platform_id}
          IN  IF found = {}
              THEN /\ mloc' = [BeginCall("delete", platform_id) EXCEPT
                                  !.pc = "done", !.result = <<FALSE>>]
                   /\ UNCHANGED <<platforms, mutated, child_tables>>
              ELSE LET flushed == nullify_children(child_tables,
                                                   platform_id)
                   IN
                   IF not_null_violation(flushed)
                   THEN /\ mloc' = [BeginCall("delete", platform_id) EXCEPT
                                       !.pc = "done",
                                       !.raised = "SQLAlchemyError"]
                        /\ UNCHANGED <<platforms, mutated, child_tables>>
                   ELSE /\ platforms' = platforms \ found
                        /\ child_tables' = flushed
                        /\ mutated' = [mutated EXCEPT ![platform_id] = clock]
                        /\ mloc' = [BeginCall("delete", platform_id) EXCEPT
                                       !.pc = "mirror", !.committed = TRUE,
                                       !.after = platforms',
                                       !.result = <<TRUE>>]
    /\ UNCHANGED <<platform_seq, index, clock>>
    /\ UNCHANGED otherThanMirror

\* delete_platform_from_pinecone inside its try block (lines 464-470 and
\* 776-788): the record with id str(platform_id) is deleted.
delete_platform_from_pinecone ==
    /\ mloc.pc = "mirror" /\ mloc.op = "delete"
    /\ \E ok \in BOOLEAN :
          IF ok
          THEN /\ index' = {r \in index : r.id # ToString(mloc.arg)}
               /\ mloc' = [mloc EXCEPT !.attempted = TRUE, !.pc = "done"]
          ELSE /\ UNCHANGED index
               /\ mloc' = swallowed([mloc EXCEPT !.attempted = TRUE])
    /\ UNCHANGED <<platforms, platform_seq, clock, mutated, child_tables>>
    /\ UNCHANGED otherThanMirror

\* create_compute_instance (lines 480-494): model_dump() holds the key
\* pricing_models, which the SQL class does not take, so the constructor
\* raises TypeError and nothing is stored; no line of it assigns
\* last_updated.
create_compute_instance ==
    /\ mloc.pc = "idle"
    /\ \E platform_id \in 1..MaxPlatforms :
          mloc' = [BeginCall("create_compute_instance", platform_id) EXCEPT
                      !.pc = "done", !.raised = "TypeError"]
    /\ UNCHANGED <<platforms, platform_seq, index, clock, mutated, child_tables>>
    /\ UNCHANGED otherThanMirror

\* What the six other creates of a row that refers to a platform raise
\* (create_geographic_region, create_compliance_certification,
\* create_proprietary_software, create_proprietary_hardware,
\* create_support_tier, create_pricing_model; lines 503-714).  The record
\* given has no platform_id: model_dump() of a region or a certification
\* holds a key the SQL class does not take (country_code, status), and the
\* row of the other four has a NULL foreign key at the commit.
child_create_raises(table) ==
    IF table \in {"geographic_regions", "compliance_certification"}
    THEN "TypeError" ELSE "IntegrityError"

\* Each of these creates: the exception is caught, the session rolled back
\* and the exception raised again; nothing is stored.
create_child_row ==
    /\ mloc.pc = "idle"
    /\ \E table \in ReferringTables \ {"compute_instance"} :
          mloc' = [BeginCall("create_child_row", 0) EXCEPT
                      !.pc = "done", !.raised = child_create_raises(table)]
    /\ UNCHANGED <<platforms, platform_seq, index, clock, mutated, child_tables>>
    /\ UNCHANGED otherThanMirror

\* The controller call returns or has raised.
MirrorReturn ==
    /\ mloc.pc = "done"
    /\ mloc' = InitMLoc
    /\ UNCHANGED <<platforms, platform_seq, index, clock, mutated, child_tables>>
    /\ UNCHANGED otherThanMirror

NextMirror ==
    \/ MirrorTick
    \/ create_platform_write
    \/ add_platform_to_pinecone
    \/ update_platform
    \/ update_platform_in_pinecone
    \/ delete_platform
    \/ delete_platform_from_pinecone
    \/ create_compute_instance
    \/ create_child_row
    \/ MirrorReturn

(***************************************************************************)
(*   Part VI : the database sessions of a controller call                  *)
(***************************************************************************)

\* One call of each controller that runs its unit of work inside
\* `with self.get_session() as session:` and begins with
\* `session = self._ensure_healthy_session(session)`.
SessionOperations == {"issue", "delete_platform", "get_platform_evaluation"}

\* The local variables of the call: entered is the session whose context
\* manager the with statement entered, session the one the name session is
\* bound to, acquired every session the call obtained from get_session, and
\* used the session the unit of work ran on.  0 is no session.
InitWLoc ==
    [op |-> "none", pc |-> "idle", entered |-> 0, session |-> 0,
     acquired |-> {}, used |-> 0, raised |-> FALSE]

InitSession ==
    /\ sessions = <<>>
    /\ wloc = InitWLoc

\* get_session (controller/platform.py, lines 245-247): a new session.
get_session(made) == Append(made, "open")

\* Session.close().
close(made, session) == [made EXCEPT ![session] = "closed"]

\* `with self.get_session() as session:` is entered: the context manager of
\* the new session is the one the with statement will exit.
enter_with ==
    /\ wloc.pc = "idle"
    /\ Len(sessions) + 2 <= MaxSessions
    /\ \E op \in SessionOperations :
          LET session == Len(sessions) + 1
          IN  /\ sessions' = get_session(sessions)
              /\ wloc' = [InitWLoc EXCEPT !.op = op, !.pc = "entered",
                                          !.entered = session,
                                          !.session = session,
                                          !.acquired = {session}]
    /\ UNCHANGED otherThanSession

\* session = self._ensure_healthy_session(session) (lines 259-265, and
\* controller/base.py lines 69-83): when the probe fails the session is
\* closed and the name is bound to a new session.
ensure_healthy_session ==
    /\ wloc.pc = "entered"
    /\ \E check_session_health \in BOOLEAN :
          IF check_session_health
          THEN /\ wloc' = [wloc EXCEPT !.pc = "work"]
               /\ UNCHANGED sessions
          ELSE LET closed == close(sessions, wloc.session)
                   session == Len(closed) + 1
               IN  /\ sessions' = get_session(closed)
                   /\ wloc' = [wloc EXCEPT !.pc = "work",
                                           !.session = session,
                                           !.acquired = @ \cup {session}]
    /\ UNCHANGED otherThanSession

\* The unit of work on the session the name is bound to: it commits and the
\* call goes on to return, or it fails, the except clause rolls that
\* session back and the exception leaves the with block.
unit_of_work ==
    /\ wloc.pc = "work"
    /\ \E ok \in BOOLEAN :
          wloc' = [wloc EXCEPT !.pc = "exit", !.used = wloc.session,
                               !.raised = ~ok]
    /\ UNCHANGED sessions
    /\ UNCHANGED otherThanSession

\* The with statement is left, by return or by the exception: it calls
\* __exit__ of the context manager it entered, which closes that session.
exit_with ==
    /\ wloc.pc = "exit"
    /\ sessions' = close(sessions, wloc.entered)
    /\ wloc' = [wloc EXCEPT !.pc = "done"]
    /\ UNCHANGED otherThanSession

\* The call has returned or raised; its locals are gone.
SessionReturn ==
    /\ wloc.pc = "done"
    /\ wloc' = InitWLoc
    /\ UNCHANGED sessions
    /\ UNCHANGED otherThanSession

NextSession ==
    \/ enter_with
    \/ ensure_healthy_session
    \/ unit_of_work
    \/ exit_with
    \/ SessionReturn

(***************************************************************************)
(*                          Specifications                                 *)
(***************************************************************************)
vars ==
    <<stateVars, platformVars, pureVars, scoreVars, mirrorVars, sessionVars>>

\* The state after construction of the two controllers.
Init ==
    /\ InitState
    /\ InitPlatform
    /\ InitPure
    /\ InitScore
    /\ InitMirror
    /\ InitSession

\* The login router and the state store.
SpecState ==
    /\ Init
    /\ [][NextState]_vars

\* The platform controller.
SpecPlatform ==
    /\ Init
    /\ [][NextPlatform]_vars

\* The conversions and validators, one call at a time.
SpecPure ==
    /\ Init
    /\ [][NextPure]_vars

\* The score controller, one call at a time.
SpecScore ==
    /\ Init
    /\ [][NextScore]_vars

\* The platform controller with its time stamp and its mirror.
SpecMirror ==
    /\ Init
    /\ [][NextMirror]_vars

\* The sessions of the controller calls, one call at a time.
SpecSession ==
    /\ Init
    /\ [][NextSession]_vars

(***************************************************************************)
(*                       Claims on the state store                         *)
(***************************************************************************)

\* consume() has returned to handler p (which may already have answered).
ConsumeReturned(p) == loc[p].op = "callback" /\ pc[p] \in {"consumed", "done"}

\* C1: a consume(s) that finds the token of s in the store at an age of at
\* most expiration_seconds (and whose delete commits) returns that token, its
\* state being s; every consume(s) that starts after some consume(s) has
\* returned a record returns None.
C1_FirstConsumeThenNone ==
    \A p \in Procs :
        ConsumeReturned(p) =>
            /\ (/\ loc[p].db_state # None
                /\ ~loc[p].failed
                /\ loc[p].time_elapsed <= expiration_seconds)
               => (/\ loc[p].ret = loc[p].db_state
                   /\ loc[p].ret # None
                   /\ loc[p].ret.state = loc[p].arg)
            /\ loc[p].late => loc[p].ret = None

\* C1 witness: one consume returned the token at the age of exactly the TTL,
\* and a consume of the same state that started after it has returned None.
C1_Witness ==
    \E p, q \in Procs :
        /\ p # q
        /\ ConsumeReturned(p) /\ ConsumeReturned(q)
        /\ loc[p].ret # None
        /\ loc[p].time_elapsed = expiration_seconds
        /\ loc[q].arg = loc[p].arg
        /\ loc[q].late
        /\ loc[q].ret = None

\* C2: at most one consume() call returns a record for any one state value,
\* whatever the interleaving of the calls.
C2_ConsumedAtMostOnce ==
    \A s \in StateValues : okCount[s] <= 1

\* C3: a consume(s) that finds a token older than expiration_seconds returns
\* None, and once its delete is committed no token of s is in the store;
\* every consume(s) that starts after that returns None.
C3_ExpiredRemovedNeverReturned ==
    \A p \in Procs :
        ConsumeReturned(p) =>
            /\ (loc[p].db_state # None /\ loc[p].time_elapsed > expiration_seconds)
               => (/\ loc[p].ret = None
                   /\ ~loc[p].failed => \A r \in store : r.state # loc[p].arg)
            /\ loc[p].late_expired
               => (loc[p].ret = None /\ loc[p].db_state = None)

\* C3 witness: a consume found an expired token and deleted it, and a later
\* consume of the same state has returned None.
C3_Witness ==
    \E p, q \in Procs :
        /\ p # q
        /\ ConsumeReturned(p) /\ ConsumeReturned(q)
        /\ loc[p].db_state # None
        /\ loc[p].time_elapsed > expiration_seconds
        /\ ~loc[p].failed
        /\ loc[q].arg = loc[p].arg
        /\ loc[q].late_expired
        /\ ~loc[q].failed
        /\ loc[q].ret = None

\* C4: the code exchange is attempted only after consume(state) returned a
\* record; at most one exchange is attempted per state value; a callback whose
\* consume returned None is answered 400 with no exchange and no cookie.
C4_OneExchangePerState ==
    /\ \A p \in Procs :
          /\ loc[p].exchanged => (ConsumeReturned(p) /\ loc[p].ret # None)
          /\ (loc[p].op = "callback" /\ pc[p] = "done" /\ loc[p].ret = None)
             => (~loc[p].exchanged /\ ~loc[p].cookie /\ loc[p].status = 400)
    /\ \A s \in StateValues : exchanges[s] <= 1

\* C5: a clear_old_states(keep_latest = N) that ran with no other operation
\* changing the store between its select and its delete leaves exactly
\* min(N, total) tokens, each at least as recent as every removed one, and
\* returns total - min(N, total).
C5_ClearKeepsLatest ==
    \A p \in Procs :
        (/\ loc[p].op = "clear" /\ pc[p] = "done"
         /\ ~loc[p].failed /\ loc[p].quiet)
        => LET total == Cardinality(loc[p].seen)
               kept  == Min(loc[p].keep_latest, total)
           IN  /\ Cardinality(loc[p].left) = kept
               /\ loc[p].left \subseteq loc[p].seen
               /\ \A r \in loc[p].left : \A q \in loc[p].seen \ loc[p].left :
                     r.created_at >= q.created_at
               /\ loc[p].deleted_count = total - kept

\* C5 witness: a clear with keep_latest = 1 removed the older of two tokens.
C5_Witness ==
    \E p \in Procs :
        /\ loc[p].op = "clear" /\ pc[p] = "done"
        /\ ~loc[p].failed /\ loc[p].quiet
        /\ loc[p].keep_latest = 1
        /\ loc[p].deleted_count = 1
        /\ \E r \in loc[p].left : \E q \in loc[p].seen \ loc[p].left :
              r.created_at > q.created_at

\* C6: when a storage operation inside issue() fails, issue() returns None,
\* /oauth answers 500 and no token of the generated state is in the store;
\* when none fails, the record returned carries the generated state and
\* /oauth answers with the authorization URL.
C6_IssueFailureStoresNothing ==
    \A p \in Procs :
        (loc[p].op = "oauth" /\ pc[p] = "done") =>
            IF loc[p].failed
            THEN /\ loc[p].ret = None
                 /\ loc[p].status = 500
                 /\ \A r \in store : r.state # loc[p].arg
            ELSE /\ loc[p].ret # None
                 /\ loc[p].ret.state = loc[p].arg
                 /\ loc[p].status = 200


(***************************************************************************)
(*                   Claims on the platform aggregate                      *)
(***************************************************************************)
\* The committed rows that create_platform call q inserted.
RowsOf(q) == {r \in db : r.req = q}

\* How many rows of table t the aggregate A asks for.
Expected(A, t) ==
    CASE t = "network_capabilities" -> 1
      [] t = "security_features" -> 1
      [] t = "platform_information" -> 1
      [] t = "geographic_regions" -> Len(A.regions)
      [] t = "compute_instance" -> Len(A.compute_instances)
      [] t = "pricing_model" ->
            Len(Flatten([i \in 1..Len(A.compute_instances) |->
                            A.compute_instances[i].pricing_models]))
      [] t = "compliance_certification" -> Len(A.compliance_certifications)
      [] t = "proprietary_software" -> Len(A.proprietary_software)
      [] t = "proprietary_hardware" -> Len(A.proprietary_hardware)
      [] t = "support_tier" -> Len(A.support_tiers)

Complete(q) ==
    \A t \in Tables :
        Cardinality({r \in RowsOf(q) : r.table = t}) = Expected(requests[q], t)

\* C7: create_platform is all-or-nothing.  In every committed state the rows
\* of a create request are all there (the root with every child row the
\* request asks for) or none is; and a call that raised before its commit
\* succeeded has rolled back, leaving none of its rows.
C7_AllOrNothing ==
    /\ \A q \in 1..Len(requests) : RowsOf(q) = {} \/ Complete(q)
    /\ \A p \in Procs :
          (ppc[p] = "done" /\ ploc[p].op = "create"
             /\ ploc[p].raised /\ ~ploc[p].committed)
          => (RowsOf(ploc[p].req) = {} /\ ploc[p].flushed = {})

\* A call failed after its root row was flushed and left nothing, while
\* another request with children is committed in full.
C7_Witness ==
    /\ \E p \in Procs :
          /\ ppc[p] = "done" /\ ploc[p].op = "create"
          /\ ploc[p].raised /\ ~ploc[p].committed
          /\ ploc[p].platform_id # 0
          /\ RowsOf(ploc[p].req) = {}
    /\ \E q \in 1..Len(requests) :
          /\ Len(requests[q].compute_instances) > 0
          /\ RowsOf(q) # {} /\ Complete(q)

\* C8: the order and the foreign keys of create_platform.  Whenever the root
\* row is in a transaction, the networking and security rows of the same
\* request were flushed before it and the root's networking_id and
\* security_id are their generated ids; child rows are added only once the
\* root is flushed, and each carries the root's generated id as platform_id
\* (a pricing row: as compute_instance_id); the same references hold for
\* every committed row.
C8_OrderAndForeignKeys ==
    /\ \A p \in Procs : \A r \in ploc[p].flushed :
          r.table = "platform_information" =>
             /\ r.id # 0
             /\ \E n \in ploc[p].flushed :
                   /\ n.table = "network_capabilities" /\ n.req = r.req
                   /\ n.id = r.networking_id /\ n.id = ploc[p].networking_id
             /\ \E s \in ploc[p].flushed :
                   /\ s.table = "security_features" /\ s.req = r.req
                   /\ s.id = r.security_id /\ s.id = ploc[p].security_id
    /\ \A p \in Procs : \A i \in 1..Len(ploc[p].pending) :
          /\ ploc[p].pending[i].table \in ChildTables \cup {"pricing_model"}
          /\ \E r \in ploc[p].flushed :
                /\ r.table = "platform_information"
                /\ r.req = ploc[p].pending[i].req
                /\ r.id = ploc[p].pending[i].platform_id
    /\ \A r \in db :
          /\ r.table = "platform_information" =>
                /\ \E n \in db : /\ n.table = "network_capabilities"
                                 /\ n.req = r.req /\ n.id = r.networking_id
                /\ \E s \in db : /\ s.table = "security_features"
                                 /\ s.req = r.req /\ s.id = r.security_id
          /\ r.table \in ChildTables \cup {"pricing_model"} =>
                \E root \in db : /\ root.table = "platform_information"
                                 /\ root.req = r.req /\ root.id = r.platform_id

\* A committed platform whose networking and security ids differ, with a
\* compute instance whose id is not the platform's and a pricing row that
\* carries the platform's id.
C8_Witness ==
    \E root \in db : \E inst \in db : \E pr \in db :
        /\ root.table = "platform_information"
        /\ root.networking_id # root.security_id
        /\ inst.table = "compute_instance" /\ inst.req = root.req
        /\ inst.id # root.id
        /\ pr.table = "pricing_model" /\ pr.req = root.req
        /\ pr.platform_id = root.id

\* The scalar fields of the aggregates a and b agree (ids apart) and their
\* nested lists have the same lengths.
SameAggregate(a, b) ==
    /\ a.platform_name = b.platform_name
    /\ a.networking.vpc_support = b.networking.vpc_support
    /\ a.security_features.encryption_at_rest = b.security_features.encryption_at_rest
    /\ Len(a.regions) = Len(b.regions)
    /\ \A i \in 1..Len(a.regions) : a.regions[i].country_code = b.regions[i].country_code
    /\ Len(a.compute_instances) = Len(b.compute_instances)
    /\ \A i \in 1..Len(a.compute_instances) :
          /\ a.compute_instances[i].storage_gb = b.compute_instances[i].storage_gb
          /\ Len(a.compute_instances[i].pricing_models)
                = Len(b.compute_instances[i].pricing_models)
    /\ Len(a.compliance_certifications) = Len(b.compliance_certifications)
    /\ Len(a.proprietary_software) = Len(b.proprietary_software)
    /\ Len(a.proprietary_hardware) = Len(b.proprietary_hardware)
    /\ Len(a.support_tiers) = Len(b.support_tiers)

\* C9: the round trip.  The aggregate create_platform returns (the stored
\* rows converted by convert_sql_to_platform_model) equals the aggregate
\* that was persisted on every scalar field and on the length of every
\* nested list.
C9_RoundTrip ==
    \A p \in Procs :
        (ppc[p] = "done" /\ ploc[p].op = "create" /\ ploc[p].found)
        => SameAggregate(requests[ploc[p].req], ploc[p].result)

\* The ids of the pricing models nested in an aggregate.
PricingIds(a) ==
    UNION {{a.compute_instances[i].pricing_models[j].id :
                j \in 1..Len(a.compute_instances[i].pricing_models)} :
            i \in 1..Len(a.compute_instances)}

\* C10: every pricing row whose compute_instance_id is the id of platform P
\* appears in the aggregate get_platform(P) returns, for any number of
\* compute instances; in particular both pricing models of an instance that
\* was created with two.
C10_PricingInFetchedAggregate ==
    \A p \in Procs :
        (ppc[p] = "done" /\ ploc[p].op = "get" /\ ploc[p].found)
        => \A r \in db :
              (r.table = "pricing_model" /\ r.platform_id = ploc[p].arg)
              => r.id \in PricingIds(ploc[p].result)

\* A fetched platform with two compute instances, each created with two
\* pricing models: its four pricing rows are all in the aggregate.
C10_Witness ==
    \E p \in Procs :
        /\ ppc[p] = "done" /\ ploc[p].op = "get" /\ ploc[p].found
        /\ Len(ploc[p].result.compute_instances) = 2
        /\ Cardinality({r \in db : r.table = "pricing_model"
                                   /\ r.platform_id = ploc[p].arg}) = 4
        /\ Cardinality(PricingIds(ploc[p].result)) = 4

\* C11: the aggregate returned for a persisted platform carries the root
\* row's generated id: what create_platform returns has the id of the row it
\* flushed, what get_platform(P) returns has the id P.
C11_ReturnedIdIsRootId ==
    \A p \in Procs :
        (ppc[p] = "done" /\ ploc[p].found)
        => /\ ploc[p].op = "create" => ploc[p].result.id = ploc[p].platform_id
           /\ ploc[p].op = "get" => ploc[p].result.id = ploc[p].arg

(***************************************************************************)
(*               Claims on the conversions and validators                  *)
(***************************************************************************)
\* C12: whether or not the platform row has a networking or a security row,
\* the converted aggregate has a networking and a security_features object;
\* the object synthesized for a missing row has every boolean false and its
\* id and optional fields null; an array column of the root that is NULL
\* comes back as the empty list.
C12_SynthesizedDefaults ==
    fn = "convert_platform_data" =>
        /\ fn_out.networking # {} /\ fn_out.security_features # {}
        /\ fn_in.network_capabilities = {} =>
              \A n \in fn_out.networking :
                  /\ n.id = "None" /\ n.bandwidth_gbps = "None"
                  /\ n.network_type = "None" /\ n.interconnect_technology = "None"
                  /\ n.vpc_support = "False" /\ n.load_balancing = "False"
                  /\ n.cdn_integration = "False" /\ n.private_networking = "False"
        /\ fn_in.security_features = {} =>
              \A s \in fn_out.security_features :
                  /\ s.id = "None"
                  /\ \A f \in DOMAIN s \ {"id"} : s[f] = "False"
        /\ \A c \in {"specializations", "target_markets", "notable_customers",
                     "partnerships", "data_sources"} :
              /\ ~fn_out[c].null
              /\ fn_in[c].null => fn_out[c].items = <<>>
              /\ ~fn_in[c].null => fn_out[c].items = fn_in[c].items

\* A row without networking and without security row, whose specializations
\* are NULL, was converted.
C12_Witness ==
    /\ fn = "convert_platform_data"
    /\ fn_in.network_capabilities = {} /\ fn_in.security_features = {}
    /\ fn_in.specializations.null
    /\ fn_out.networking # {}

\* C13: a region persisted from a domain region record, by create_platform
\* or by create_geographic_region, is stored with country equal to the
\* record's country_code: each of the two operations, given a valid region,
\* stores such a row.
C13_CountryIsCountryCode ==
    fn \in {"create_geographic_region", "create_platform_region"} =>
        /\ ~fn_out.raised
        /\ \E r \in fn_out.stored : r.country = fn_in.country_code

\* The string v spells the member m: character by character it is m's
\* character in either case, or a space where m has an underscore.
Spells(v, m) ==
    /\ Len(v) = Len(m)
    /\ \A i \in 1..Len(m) :
          \/ v[i] = m[i]
          \/ v[i] = upper_char(m[i])
          \/ (v[i] = " " /\ m[i] = "_")

\* C14: a string is accepted for an enum-valued field if and only if,
\* lowercased and with its spaces replaced by underscores, it is a member
\* of the field's vocabulary, and then the field's value is that member;
\* any other string is passed through unchanged, rejected, and not handed on
\* to be stored.
C14_EnumNormalisation ==
    fn = "validate_enum_field" =>
        LET members == {m \in Vocabulary(fn_in.field) : Spells(fn_in.v, m)}
        IN  /\ fn_out.accepted <=> members # {}
            /\ fn_out.accepted =>
                  /\ fn_out.value \in members
                  /\ fn_out.passed_on = {fn_out.value}
            /\ ~fn_out.accepted =>
                  /\ fn_out.value = fn_in.v
                  /\ fn_out.passed_on = {}

\* "GPU Cloud" was given as platform_type and became gpu_cloud.
C14_Witness ==
    /\ fn = "validate_enum_field"
    /\ fn_in.field = "platform_type"
    /\ fn_in.v = <<"G", "P", "U", " ", "C", "L", "O", "U", "D">>
    /\ fn_out.accepted
    /\ fn_out.value = <<"g", "p", "u", "_", "c", "l", "o", "u", "d">>

\* The sum of the values of a record of integers.
RECURSIVE SumOf(_, _)
SumOf(rec, fields) ==
    IF fields = {} THEN 0
    ELSE LET f == CHOOSE g \in fields : TRUE
         IN  rec[f] + SumOf(rec, fields \ {f})

\* The sum of all sub-scores of an evaluation, and their number.
RECURSIVE SumOfAll(_, _)
SumOfAll(E, names) ==
    IF names = {} THEN 0
    ELSE LET n == CHOOSE g \in names : TRUE
         IN  SumOf(E[n], DOMAIN E[n]) + SumOfAll(E, names \ {n})

RECURSIVE CountOfAll(_, _)
CountOfAll(E, names) ==
    IF names = {} THEN 0
    ELSE LET n == CHOOSE g \in names : TRUE
         IN  Cardinality(DOMAIN E[n]) + CountOfAll(E, names \ {n})

\* The sum of the category means, in twentieths.
RECURSIVE SumOfMeans(_, _)
SumOfMeans(E, names) ==
    IF names = {} THEN 0
    ELSE LET n == CHOOSE g \in names : TRUE
         IN  (SumOf(E[n], DOMAIN E[n]) * 20) \div Cardinality(DOMAIN E[n])
             + SumOfMeans(E, names \ {n})

\* C15: each category's overall_score is the sum of its own sub-scores
\* divided by their number (4 or 5), and overall_platform_score is the sum
\* of the ten category scores divided by 10.
C15_TwoLevelMean ==
    fn = "overall_platform_score" =>
        /\ Cardinality(DOMAIN fn_in) = 10
        /\ CountOfAll(fn_in, DOMAIN fn_in) = 44
        /\ \A name \in DOMAIN fn_in :
              /\ Cardinality(DOMAIN fn_in[name]) \in {4, 5}
              /\ fn_out.proficiency_summary[name].num
                    * Cardinality(DOMAIN fn_in[name])
                 = SumOf(fn_in[name], DOMAIN fn_in[name])
                    * fn_out.proficiency_summary[name].den
        /\ fn_out.overall_platform_score.num * 20 * 10
              = SumOfMeans(fn_in, DOMAIN fn_in) * fn_out.overall_platform_score.den

\* An evaluation whose two-level average is not the flat average of its 44
\* sub-scores.
C15_Witness ==
    /\ fn = "overall_platform_score"
    /\ fn_out.overall_platform_score.num * CountOfAll(fn_in, DOMAIN fn_in)
          # SumOfAll(fn_in, DOMAIN fn_in) * fn_out.overall_platform_score.den
    /\ fn_in.model_deployment.deployment_options_score
          # fn_in.model_deployment.canary_deployment_score

(***************************************************************************)
(*                  Claims on the platform evaluations                     *)
(***************************************************************************)
\* The rows committed by the call in progress.
NewRows == sdb \ sloc.before

\* The keys (table, id) of a set of rows.
Keys(rows) == {<<r.table, r.id>> : r \in rows}

\* C16: create_platform_evaluation commits ten category rows, one per
\* category, and one root row, all at once at its commit; when the root row
\* is inserted every category row has been flushed and has the id the root
\* row refers to; and when the call raises, no row of it is committed.
C16_CreateTenAndRoot ==
    /\ sloc.op = "create" /\ sloc.pc \in {"children", "root", "commit"}
          => sdb = sloc.before
    /\ \A root \in sloc.pending :
          \A name \in CategoryTables :
             /\ root.fks[name] > 0
             /\ \E r \in sloc.flushed :
                   r.table = name /\ r.id = root.fks[name]
    /\ sloc.op = "create" /\ sloc.pc = "done" /\ sloc.raised = ""
          => /\ sloc.before \subseteq sdb
             /\ Cardinality(NewRows) = 11
             /\ Cardinality(Evaluations(NewRows)) = 1
             /\ \A name \in CategoryTables :
                   Cardinality({r \in NewRows : r.table = name}) = 1
             /\ \A root \in Evaluations(NewRows) :
                   \A r \in NewRows \ {root} :
                      /\ root.fks[r.table] = r.id
                      /\ \A d \in sloc.data :
                            SumOf(r.cols, DOMAIN r.cols)
                               = SumOf(d.scores[r.table],
                                       DOMAIN d.scores[r.table])
    /\ sloc.op = "create" /\ sloc.pc = "done" /\ sloc.raised # ""
          => sdb = sloc.before

\* A create that committed after an earlier create had flushed its ten
\* category rows and was rolled back.
C16_Witness ==
    /\ sloc.op = "create" /\ sloc.pc = "done" /\ sloc.raised = ""
    /\ Cardinality(NewRows) = 11
    /\ sloc.children["compute_and_scaling"] > Cardinality(Evaluations(sdb))
    /\ Cardinality({r \in sdb : r.table = "compute_and_scaling"})
          = Cardinality(Evaluations(sdb))

\* C17: an update_platform_evaluation that finds the evaluation and returns
\* leaves the evaluation id and the ten foreign keys as they were, inserts
\* and deletes no row, and gives every sub-score of the ten category rows
\* the incoming value.
C17_UpdateInPlace ==
    sloc.op = "update" /\ sloc.pc = "done" /\ sloc.raised = ""
        /\ sloc.result # <<>>
    => /\ Keys(sdb) = Keys(sloc.before)
       /\ \A e0 \in Evaluations(sloc.before) :
             e0.id = sloc.arg =>
                \E e1 \in Evaluations(sdb) :
                   /\ e1.id = e0.id
                   /\ e1.fks = e0.fks
                   /\ \A d \in sloc.data, name \in CategoryTables :
                         \E r \in sdb :
                            /\ r.table = name
                            /\ r.id = e0.fks[name]
                            /\ convert_category(name, r.cols) = d.scores[name]
       /\ \A d \in sloc.data : sloc.result[1].scores = d.scores

\* An update that changed the sub-scores of an evaluation.
C17_Witness ==
    /\ sloc.op = "update" /\ sloc.pc = "done" /\ sloc.raised = ""
    /\ sloc.result # <<>>
    /\ sdb # sloc.before
    /\ \E r \in sloc.before :
          /\ r.table = "compute_and_scaling"
          /\ r.cols.compute_variety = 3
          /\ \E q \in sdb : /\ q.table = r.table
                            /\ q.id = r.id
                            /\ q.cols.compute_variety = 8

\* The quotient q is the two-level mean of the sub-scores of evaluation r.
IsScoreOf(q, r) ==
    LET E == [name \in CategoryTables |->
                 (CHOOSE c \in related_category(sdb, r, name) : TRUE).cols]
    IN  q.num * 20 * 10 = SumOfMeans(E, DOMAIN E) * q.den

\* The stored evaluations are 5.0 and then, more recent, 8.0 for platform 1
\* and 6.0 for platform 2.
ExampleEvaluations ==
    \E a, b, c \in Evaluations(sdb) :
       /\ Evaluations(sdb) = {a, b, c}
       /\ a.platform_id = 1 /\ b.platform_id = 1 /\ c.platform_id = 2
       /\ a.evaluation_date < b.evaluation_date
       /\ IsScoreOf(Quotient(5, 1), a)
       /\ IsScoreOf(Quotient(8, 1), b)
       /\ IsScoreOf(Quotient(6, 1), c)

\* C18: get_top_platforms_by_score(limit) returns at most one entry per
\* platform, the entry of a most recent evaluation of the platform with that
\* evaluation's score, in order of non-increasing score, and
\* min(limit, number of platforms with an evaluation) entries; for the
\* example evaluations it returns platform 1 at 8.0, then platform 2 at 6.0.
C18_TopPlatforms ==
    sloc.op = "top" /\ sloc.pc = "done" =>
        LET res == sloc.result
            evaluations == Evaluations(sdb)
        IN  /\ \A i, j \in 1..Len(res) :
                  i # j => res[i].platform_id # res[j].platform_id
            /\ \A i \in 1..Len(res) :
                  \E r \in evaluations :
                     /\ r.id = res[i].evaluation_id
                     /\ r.platform_id = res[i].platform_id
                     /\ r.evaluation_date = res[i].evaluation_date
                     /\ \A q \in evaluations :
                           q.platform_id = r.platform_id
                              => q.evaluation_date <= r.evaluation_date
                     /\ IsScoreOf(res[i].overall_score, r)
            /\ \A i, j \in 1..Len(res) :
                  i < j => res[j].overall_score.num * res[i].overall_score.den
                              <= res[i].overall_score.num * res[j].overall_score.den
            /\ Len(res) = Min(sloc.arg,
                              Cardinality({r.platform_id : r \in evaluations}))
            /\ ExampleEvaluations /\ sloc.arg >= 2
                  => /\ Len(res) = 2
                     /\ res[1].platform_id = 1
                     /\ res[1].overall_score.num = 8 * res[1].overall_score.den
                     /\ res[2].platform_id = 2
                     /\ res[2].overall_score.num = 6 * res[2].overall_score.den

\* The ranking of the example evaluations, the older evaluation of platform
\* 1 having been stored last.
C18_Witness ==
    /\ sloc.op = "top" /\ sloc.pc = "done" /\ sloc.arg >= 2
    /\ ExampleEvaluations
    /\ \E a, b \in Evaluations(sdb) :
          /\ a.platform_id = 1 /\ b.platform_id = 1
          /\ a.evaluation_date < b.evaluation_date
          /\ a.id > b.id
    /\ Len(sloc.result) = 2

(***************************************************************************)
(*             Claims on the mirror and on last_updated                    *)
(***************************************************************************)
\* C19: in create_platform, update_platform and delete_platform the mirror
\* write is attempted only after the relational commit; when it fails the
\* call still returns its result and the committed rows stay; a call that
\* was rolled back has attempted no mirror write and has left the rows and
\* the index as they were.
C19_MirrorFailureSwallowed ==
    /\ mloc.attempted => mloc.committed
    /\ mloc.raised # ""
          => /\ ~ mloc.attempted
             /\ ~ mloc.committed
             /\ index = mloc.index_before
             /\ platforms = mloc.before
    /\ mloc.failed
          => /\ mloc.pc = "done" /\ mloc.committed
             /\ mloc.raised = ""
             /\ mloc.result # <<>>
             /\ (mloc.op = "delete" => mloc.result = <<TRUE>>)
             /\ platforms = mloc.after
             /\ index = mloc.index_before

\* A delete_platform that returned True although its mirror write failed:
\* the row is gone and the record of an earlier create is still in the index.
C19_Witness ==
    /\ mloc.op = "delete" /\ mloc.pc = "done" /\ mloc.failed
    /\ mloc.result = <<TRUE>>
    /\ \A r \in platforms : r.id # mloc.arg
    /\ platforms # mloc.before
    /\ index # {}

\* C20: the last_updated of every platform row is not older than the last
\* committed write to that platform.
C20_LastUpdatedFresh ==
    \A r \in platforms : r.last_updated >= mutated[r.id]

(***************************************************************************)
(*   Claims : the routes of the evaluations                                *)
(***************************************************************************)

\* C21: when the evaluation asked for does not exist, the route answers
\* with status 404.
C21_MissingIsNotFound ==
    sloc.pc = "done" /\ sloc.missing => sloc.status = 404

\* The rows of evaluation e among rows: its root row and the category rows
\* its foreign keys refer to.
EvaluationRows(e, rows) ==
    {r \in rows : \/ r = e
                  \/ /\ r.table \in CategoryTables
                     /\ r.id = e.fks[r.table]}

\* C24: after delete_platform_evaluation returned True no row of the
\* evaluation is left, and every category row is referred to by a root row.
C24_DeleteLeavesNoOrphan ==
    sloc.op = "delete" /\ sloc.pc = "done" /\ sloc.result = <<TRUE>>
    => /\ \A e \in Evaluations(sloc.before) :
             e.id = sloc.arg => EvaluationRows(e, sdb) = {}
       /\ \A r \in sdb :
             r.table \in CategoryTables
                => \E e \in Evaluations(sdb) : e.fks[r.table] = r.id

\* C25: POST /scores/{platform_id} answers without an error and leaves
\* exactly one more evaluation, whose platform_id is the one of the path.
C25_PostCreatesEvaluation ==
    sloc.op = "create_evaluation" /\ sloc.pc = "done"
    => /\ sloc.raised = ""
       /\ sloc.status < 400
       /\ Cardinality(Evaluations(NewRows)) = 1
       /\ \A e \in Evaluations(NewRows) : e.platform_id = sloc.arg

\* C30: update_platform_evaluation keeps platform_id, evaluation_date and
\* the foreign keys of its evaluation, leaves every row of every other
\* evaluation as it was, adds and removes no row, and when no evaluation
\* has the id it returns None and writes nothing.
C30_UpdateFrame ==
    sloc.op = "update" /\ sloc.pc = "done"
    => LET target == {e \in Evaluations(sloc.before) : e.id = sloc.arg}
       IN  /\ Keys(sdb) = Keys(sloc.before)
           /\ target = {} => sloc.result = <<>> /\ sdb = sloc.before
           /\ \A e \in target :
                 /\ \A r \in sloc.before \ EvaluationRows(e, sloc.before) : r \in sdb
                 /\ \E e1 \in Evaluations(sdb) :
                       /\ e1.id = e.id
                       /\ e1.platform_id = e.platform_id
                       /\ e1.evaluation_date = e.evaluation_date
                       /\ e1.fks = e.fks

\* An update that changed an evaluation, given data with another
\* evaluation_date, while another evaluation is stored.
C30_Witness ==
    /\ sloc.op = "update" /\ sloc.pc = "done" /\ sloc.raised = ""
    /\ sdb # sloc.before
    /\ \E e \in Evaluations(sdb) :
          /\ e.id = sloc.arg
          /\ \E d \in sloc.data : d.evaluation_date # e.evaluation_date
          /\ \E o \in Evaluations(sdb) : o.id # e.id

(***************************************************************************)
(*   Claims : storage failures, the token response, a concurrent issue     *)
(***************************************************************************)

\* C22: a request whose storage operation failed is answered with a server
\* error (status 500 or above), never with success or a client error.
C22_StorageFailureIsServerError ==
    \A p \in Procs :
        (pc[p] = "done" /\ loc[p].failed /\ loc[p].op \in {"oauth", "callback"})
        => loc[p].status >= 500

\* C26: a callback whose state was valid and whose token response has no
\* access_token is answered 500 and sets no cookie.
C26_MissingTokenIs500 ==
    \A p \in Procs :
        (pc[p] = "done" /\ loc[p].token_response = "no_token")
        => (loc[p].status = 500 /\ ~loc[p].cookie)

\* C27: the delete of a clear_old_states(keep_latest = N), N >= 1, removes
\* no token that is among the N most recently created of the store at the
\* moment the delete takes effect.
C27_ClearKeepsNewest ==
    [][\A p \in Procs :
          (/\ pc[p] = "clear_delete" /\ pc'[p] = "done"
           /\ ~loc'[p].failed
           /\ loc[p].keep_latest >= 1)
          => \A r \in store :
                Cardinality({q \in store \ {r} : q.created_at >= r.created_at})
                    < loc[p].keep_latest
                => r \in store']_vars

(***************************************************************************)
(*   Claims : the key of the mirror record                                 *)
(***************************************************************************)

\* C29: the id of every record of the mirror is the string form of the
\* relational id of a platform that was created, the key with which
\* delete_platform_from_pinecone removes it.
C29_MirrorKeyIsPlatformId ==
    \A r \in index : \E platform_id \in 1..platform_seq :
        r.id = ToString(platform_id)

(***************************************************************************)
(*   Claims : the rows that refer to a platform                            *)
(***************************************************************************)

\* C28: every committed row of a table that refers to a platform refers to
\* a committed platform row; and a delete_platform of a platform that has
\* such rows either returned True with the platform row and those rows
\* gone, or raised with the platform rows and the referring rows as they
\* were before the call.
C28_ChildrenReferToPlatform ==
    /\ \A c \in child_tables : \E r \in platforms : r.id = c.platform_id
    /\ (/\ mloc.op = "delete" /\ mloc.pc \in {"mirror", "done"}
        /\ \E c \in mloc.child_before : c.platform_id = mloc.arg)
       => \/ /\ mloc.raised = "" /\ mloc.result = <<TRUE>>
             /\ \A r \in platforms : r.id # mloc.arg
             /\ \A c \in child_tables : c.platform_id # mloc.arg
          \/ /\ mloc.raised # "" /\ mloc.result = <<>>
             /\ platforms = mloc.before
             /\ child_tables = mloc.child_before

\* A delete_platform of a platform with referring rows raised, while another
\* platform is stored.
C28_Witness ==
    /\ mloc.op = "delete" /\ mloc.pc = "done"
    /\ mloc.raised = "SQLAlchemyError"
    /\ \E c \in child_tables :
          /\ c.platform_id = mloc.arg
          /\ c.table = "pricing_model"
    /\ \E r \in platforms : r.id = mloc.arg
    /\ \E r \in platforms : r.id # mloc.arg

(***************************************************************************)
(*   Claims : the sessions of a call                                       *)
(***************************************************************************)

\* C23: when a controller call has returned or raised, every session it
\* acquired is closed, the one its unit of work ran on included.
C23_SessionsClosed ==
    wloc.pc = "done"
    => /\ \A s \in wloc.acquired : sessions[s] = "closed"
       /\ sessions[wloc.used] = "closed"

================================================================
